---- MODULE Spec2Model ----
(***************************************************************************)
(* Verification model of the message intake and reply pipeline:            *)
(*   - the LLM gateway (GeminiService): request queue, key rotation loop,  *)
(*     pacing;                                                             *)
(*   - the session tracker (ConversationManager);                          *)
(*   - the reply pipeline of the two transports (WhatsAppClient,           *)
(*     TelegramClient), the tool executor and the contact upsert;          *)
(*   - the credential store (usePostgresAuthState) and the making of the   *)
(*     auth state from the stored credentials;                             *)
(*   - the owner service (isOwner, normalizeJid) and the intake of         *)
(*     messages.upsert with its count of undecryptable messages;           *)
(*   - the life cycle of the process: disconnect route, close of the       *)
(*     connection and reconnect, graceful shutdown.                        *)
(* Each subsystem has its own specification over its own variables; the    *)
(* variables of the other subsystems stay at their initial values.         *)
(***************************************************************************)
EXTENDS Integers, Sequences, FiniteSets, TLC

(***************************************************************************)
(* Bounds of the model                                                     *)
(***************************************************************************)
NumOps == 2          \* gateway operations submitted in one run
NumKeys == 2         \* API keys in the pool
MaxTime == 8000      \* the gateway clock stops here (ms)
TickMs == 1000       \* granularity of the gateway clock (ms)
MaxCalls == 3        \* touchConversation / endConversation invocations in one run
MaxInFlight == 2     \* invocations that are between two awaits at the same time
MaxReconnects == 1   \* connection-open events that replace the ConversationManager
SessionTicks == 2    \* the session clock stops after this many ticks
MaxTextLen == 4      \* fragments in a model output given to sendResponseAndLog on its own
MaxAuthOps == 2      \* calls of writeData / readData / removeData in one run
NumWorkers == 2      \* workers of the worker pool
NumMessages == 2     \* inbound messages of one address handled in one run
MaxInvocations == 2  \* invocations of processMessageBatch / processMessage in one run;
                     \* a text is taken in while an invocation is left for it
MaxEvents == 4       \* elements of messages.upsert events handled in one run
MaxJidLen == 4       \* pieces of an address given to the owner service on its own
MaxOpens == 2        \* connection-open events of the WhatsApp client in one run

(***************************************************************************)
(* Program constants (RATE_LIMIT_CONFIG)                                   *)
(***************************************************************************)
MIN_REQUEST_SPACING_MS == 3000
MAX_RETRIES == 50
RETRY_DELAY_MS == 2000
DEFAULT_RETRY_SECONDS == 60

Ops == 1..NumOps
Keys == 1..NumKeys
NoOp == 0
NoKey == 0
NoTime == -1

\* what one HTTP request to the model can come back with
Outcomes == {"ok", "e429", "e503", "invalid", "other"}

\* retryDelay seconds of the RetryInfo detail of a 429 (0: no such detail)
RetryInfos == {0, 2}

VARIABLES
    gnow,          \* gateway wall clock (Date.now()), ms
    requestQueue,  \* GeminiService.requestQueue: the operation whose chained promise is the tail
    opState,       \* per operation: where its body is
    opPrev,        \* per operation: the promise it was chained on
    opStart,       \* per operation: startTime of executeWithRetry's body
    opAttempt,     \* per operation: attempt of _retryWithKeyRotation
    opWake,        \* per operation: when its pending _delay ends
    opLoopEnd,     \* per operation: when _retryWithKeyRotation returned or threw
    opKey,         \* per operation: key of the model used by the request in flight
    keyAvail,      \* keyManager: availableAt of every key
    currentKey,    \* keyManager.getCurrentKey()
    nextId,        \* number of operations submitted so far
    startOrder,    \* history: operations in the order their bodies started
    lastReqStart,  \* history: start of the latest HTTP request
    reqGap,        \* history: start-to-start distance of the two latest HTTP requests
    lastError,     \* per operation: lastError of _retryWithKeyRotation while it loops
    sawInvalid     \* history: keys whose request came back with an invalid-key error

VARIABLES
    snow,          \* session wall clock, ms
    conversations, \* rows of the conversations table, in id order
    reportQueue,   \* rows of the report_queue table
    activeTimers,  \* ConversationManager.activeTimers of the manager in use: contact -> timer
    timers,        \* setTimeout timers that are scheduled and not cleared
    nextTimer,     \* number of timers created so far
    peer,          \* the contact that writes in this run
    waGen,         \* which ConversationManager instance the WhatsApp client holds
    numCalls,      \* touchConversation / endConversation invocations so far
    callState,     \* per invocation: the await it is at
    callInfo,      \* per invocation: contact, trigger, manager, time, selected row
    lastTouch      \* history: time of the latest touchConversation per contact

svars == <<snow, conversations, reportQueue, activeTimers, timers, nextTimer,
           peer, waGen, numCalls, callState, callInfo, lastTouch>>

VARIABLES
    inv,           \* per invocation of processMessageBatch / processMessage: its locals
    numInv,        \* invocations so far
    buffer,        \* MessageBuffer: texts of the contact waiting for the debounce timer
    mqRows,        \* message_queue: pending batches of the contact, oldest first
    locked,        \* the contact's advisory lock is held by a worker
    rateLimited,   \* rateLimitManager.isLimited()
    rlQueue,       \* rateLimitManager: batches put aside while limited
    messageLogs,   \* rows of message_logs of the contact, each with the invocation that
                   \* wrote it and the number of agent rows that were there before it
    outbox,        \* texts sent to the contact, each with the invocation that sent it
    sessionCalls,  \* endConversation / touchConversation calls made by sendResponseAndLog
    contactExists, \* the contact has a row in contacts
    userText       \* the text the contact sends in this run

rvars == <<inv, numInv, buffer, mqRows, locked, rateLimited, rlQueue,
           messageLogs, outbox, sessionCalls, contactExists, userText>>

VARIABLES
    modelOutput,   \* sendResponseAndLog on its own: the responseText it is called with
    transport,     \* "whatsapp" or "telegram"
    stripPc,       \* "call", then "sent", then "logged"
    sentText,      \* the text handed to sendText
    loggedText     \* the content of the message_logs row with role 'agent'

tvars == <<modelOutput, transport, stripPc, sentText, loggedText>>

VARIABLES
    functionCall,    \* the tool step of the loop: the name of the tool the model asked for
    serviceOutcome,  \* what the service behind the tool does: "data", "empty" or "throws"
    extractedName,   \* what extractNameFromMessage finds in the batch ("" for null)
    contactRow,      \* the contacts row of the sender: confirmedName, isVerified,
                     \* originalPushname, and the identity markers in its summary
    systemPrompt,    \* the system prompt of the batch: "undefined" or "identity_discovery"
    toolPc,          \* "identity", then "tool", then "fed"
    toolReturn       \* how executeLocalTool ended: thrown or not, and the value returned

xvars == <<functionCall, serviceOutcome, extractedName, contactRow, systemPrompt, toolPc,
           toolReturn>>

VARIABLES
    authCredentials, \* table auth_credentials: the value column of every key
    authOps,         \* the calls of writeData, readData and removeData, each with its position
    numAuthOps,      \* calls made so far
    lastCompleted,   \* history, per key: the data of the write that returned last,
                     \* null after a remove that returned
    gaveUp,          \* history, per key: a write or a remove ended on a database error
    overlapped       \* history, per key: a call started while another one of the key was running

avars == <<authCredentials, authOps, numAuthOps, lastCompleted, gaveUp, overlapped>>

VARIABLES
    dnow,           \* POST /api/disconnect: wall clock, ms
    routePc,        \* where the route handler is
    sock,           \* WhatsAppClient.sock is set
    isLoggingOut,   \* WhatsAppClient.isLoggingOut
    reinitTimer,    \* when the setTimeout of logout() calls initialize(), NoTime without one
    initPc,         \* where initialize() is
    lockHeld,       \* the session lock is held by this process
    credsStored,    \* auth_credentials has rows
    disconnectLog   \* history: what was done, in order

dvars == <<dnow, routePc, sock, isLoggingOut, reinitTimer, initPc, lockHeld,
           credsStored, disconnectLog>>

VARIABLES
    hnow,           \* graceful shutdown: wall clock, ms
    shutdownPc,     \* where the shutdown handler of start() is
    shutdownWake,   \* when the wait the handler is in ends, NoTime without one
    accepting,      \* the worker pool takes new leases
    busy,           \* per worker: it is processing a batch
    sessionLock,    \* the session lock is held by this process
    exitCode        \* argument of process.exit, NoTime while the process runs

hvars == <<hnow, shutdownPc, shutdownWake, accepting, busy, sessionLock, exitCode>>

VARIABLES
    cnow,           \* contact upsert: wall clock, ms
    contactsTable,  \* rows of contacts with the phone of the sender
    upsertPc,       \* per inbound message: where handleIncomingMessage is
    firstCreatedAt  \* history: createdAt of the first row inserted, NoTime before

cvars == <<cnow, contactsTable, upsertPc, firstCreatedAt>>

VARIABLES
    apiMethod,      \* the retry loop on its own: "generateReply" or "generateReport"
    attempt,        \* attempt of the for loop of _retryWithKeyRotation
    loopError,      \* lastError of _retryWithKeyRotation, "none" before the first error
    loopPc,         \* "loop" (head of the loop), "http", "settled", then "worked"
    loopThrew,      \* history: what executeWithRetry rejected with, "none" if it resolved
    apiResult,      \* what the method gave to its caller
    reportItem      \* status of the report_queue row the report is generated for

lvars == <<apiMethod, attempt, loopError, loopPc, loopThrew, apiResult, reportItem>>

VARIABLES
    connPc,            \* the connection: "connecting", "connected", "waiting" (for the
                       \* reconnect timer), "closed", "exited"
    reconnectAttempts, \* WhatsAppClient.reconnectAttempts
    connectedBefore,   \* WhatsAppClient.lastConnectTime > 0
    scheduledDelay,    \* delay of the setTimeout of the latest close, NoTime without one
    lastClose,         \* history: the close event handled last
    closeExit,         \* argument of process.exit, NoTime while the process runs
    runningPools,      \* WorkerPool objects started and not shut down
    runningControllers \* ConcurrencyController objects started and not stopped

kvars == <<connPc, reconnectAttempts, connectedBefore, scheduledDelay, lastClose, closeExit,
           runningPools, runningControllers>>

VARIABLES
    ownerLid,           \* config.ownerLid, NoLid when OWNER_LID is not set
    remoteJid,          \* owner service on its own: the address asked about
    normalizedJid,      \* what normalizeJid returned for it, NoJid before the call
    ownerAccepted,      \* what isOwner returned for it
    decryptionFailures, \* messages.upsert: the Map of the handler, 0 for no entry
    undecryptableRun,   \* history, per address: undecryptable messages in a row
                        \* since its last decryptable one, the last recovery
                        \* message or the last history sync
    recoveries,         \* addresses the recovery message was sent to, in order
    contactWrites,      \* phones of the inserts and updates on contacts, in order
    contactRows,        \* the contacts table: phone -> "none", "nameless" or "named"
    messageBuffer,      \* addresses of the texts added to the debounce buffer, in order
    lastMsg             \* history: the event handled last

ivars == <<ownerLid, remoteJid, normalizedJid, ownerAccepted, decryptionFailures,
           undecryptableRun, recoveries, contactWrites, contactRows, messageBuffer,
           lastMsg>>

VARIABLES
    creds,          \* the auth state: its creds object, NoCreds before it is made
    credsReadFailed \* history: readData('creds') of usePostgresAuthState ended on a
                    \* database error

uvars == <<creds, credsReadFailed>>

gvars == <<gnow, requestQueue, opState, opPrev, opStart, opAttempt, opWake,
           opLoopEnd, opKey, keyAvail, currentKey, nextId, startOrder,
           lastReqStart, reqGap, lastError, sawInvalid>>

vars == <<gvars, svars, rvars, tvars, xvars, avars, dvars, hvars, cvars, lvars, kvars, ivars, uvars>>

(***************************************************************************)
(* LLM gateway                                                             *)
(***************************************************************************)

\* the promise this.requestQueue holds after operation o was chained:
\* .then(async body).catch(reject) settles when the body has finished,
\* whether it resolved or rejected its caller
ChainSettled(p) == IF p = NoOp THEN TRUE ELSE opState[p] \in {"resolved", "rejected"}

InBody(o) == opState[o] \in {"attempt", "http", "delay", "spacing"}
InLoop(o) == opState[o] \in {"attempt", "http", "delay"}

\* keyManager.getNextKey: the next key with availableAt <= now, round robin
\* after the key used last; NoKey stands for throwing ALL_KEYS_EXHAUSTED
Available(k) == keyAvail[k] <= gnow

RoundRobin(i) == ((currentKey + i - 1) % NumKeys) + 1

getNextKey ==
    IF \E k \in Keys : Available(k)
    THEN LET i == CHOOSE i \in 1..NumKeys :
                    /\ Available(RoundRobin(i))
                    /\ \A j \in 1..(i - 1) : ~Available(RoundRobin(j))
         IN RoundRobin(i)
    ELSE NoKey

\* keyManager.markRateLimited(key, seconds)
markRateLimited(k, seconds) ==
    IF k \in Keys THEN [keyAvail EXCEPT ![k] = gnow + seconds * 1000] ELSE keyAvail

\* _extractRetryDelay: the RetryInfo detail of the error, or the default
extractRetryDelay(retryInfo) ==
    IF retryInfo > 0 THEN retryInfo ELSE DEFAULT_RETRY_SECONDS

\* _enforceRateLimit(startTime): the wait still owed
enforceRateLimit(startTime) ==
    LET elapsed == gnow - startTime
        remainingWait == MIN_REQUEST_SPACING_MS - elapsed
    IN IF remainingWait > 0 THEN remainingWait ELSE 0

\* (mutant) the body is chained on a fresh resolved promise
chainOnFresh(o) == NoOp

\* executeWithRetry, synchronous part: chain the body on requestQueue
chainOn(o) == requestQueue

executeWithRetry(o) ==
    /\ o = nextId + 1
    /\ o \in Ops
    /\ opState[o] = "idle"
    /\ opPrev' = [opPrev EXCEPT ![o] = chainOn(o)]
    /\ requestQueue' = o
    /\ opState' = [opState EXCEPT ![o] = "queued"]
    /\ nextId' = o
    /\ UNCHANGED <<gnow, opStart, opAttempt, opWake, opLoopEnd, opKey, keyAvail,
                   currentKey, startOrder, lastReqStart, reqGap, lastError, sawInvalid>>

\* executeWithRetry, the .then body starts: const startTime = Date.now()
BodyStart(o) ==
    /\ opState[o] = "queued"
    /\ ChainSettled(opPrev[o])
    /\ opState' = [opState EXCEPT ![o] = "attempt"]
    /\ opStart' = [opStart EXCEPT ![o] = gnow]
    /\ opAttempt' = [opAttempt EXCEPT ![o] = 0]
    /\ startOrder' = Append(startOrder, o)
    /\ UNCHANGED <<gnow, requestQueue, opPrev, opWake, opLoopEnd, opKey, keyAvail,
                   currentKey, nextId, lastReqStart, reqGap, lastError, sawInvalid>>

\* _retryWithKeyRotation, head of the for loop: pick a key and send the request
retryWithKeyRotation(o) ==
    /\ opState[o] = "attempt"
    /\ IF opAttempt[o] >= MAX_RETRIES \/ getNextKey = NoKey
       THEN \* throw lastError / ALL_KEYS_EXHAUSTED: _handleOperationError returns false
            /\ opState' = [opState EXCEPT ![o] = "rejected"]
            /\ opLoopEnd' = [opLoopEnd EXCEPT ![o] = gnow]
            /\ lastError' = [lastError EXCEPT ![o] = "none"]
            /\ UNCHANGED <<currentKey, opKey, lastReqStart, reqGap>>
       ELSE /\ currentKey' = getNextKey
            /\ opKey' = [opKey EXCEPT ![o] = getNextKey]
            /\ opState' = [opState EXCEPT ![o] = "http"]
            /\ lastReqStart' = gnow
            /\ reqGap' = IF lastReqStart = NoTime THEN NoTime ELSE gnow - lastReqStart
            /\ UNCHANGED <<opLoopEnd, lastError>>
    /\ UNCHANGED <<gnow, requestQueue, opPrev, opStart, opAttempt, opWake, keyAvail,
                   nextId, startOrder, sawInvalid>>

\* (mutant) a 429 is retried at once, like an invalid key
handleOperationErrorNoWait(outcome) ==
    CASE outcome = "e503" -> MIN_REQUEST_SPACING_MS * 2
      [] outcome \in {"e429", "invalid"} -> 0
      [] OTHER -> NoTime

\* _handleOperationError: the delay before the next attempt, NoTime for "do not retry"
handleOperationError(outcome) ==
    CASE outcome = "e503" -> MIN_REQUEST_SPACING_MS * 2
      [] outcome = "e429" -> RETRY_DELAY_MS
      [] outcome = "invalid" -> 0
      [] OTHER -> NoTime

\* the request of operation o returns: operation(model) resolves or throws
HttpReturn(o, outcome, retryInfo) ==
    /\ opState[o] = "http"
    /\ gnow > lastReqStart
    /\ opKey' = [opKey EXCEPT ![o] = NoKey]
    /\ lastError' = [lastError EXCEPT ![o] =
                        IF outcome = "ok" \/ handleOperationError(outcome) = NoTime
                        THEN "none" ELSE outcome]
    /\ IF outcome = "ok"
       THEN \* await this._enforceRateLimit(startTime); resolve(result)
            /\ opLoopEnd' = [opLoopEnd EXCEPT ![o] = gnow]
            /\ IF enforceRateLimit(opStart[o]) > 0
               THEN /\ opState' = [opState EXCEPT ![o] = "spacing"]
                    /\ opWake' = [opWake EXCEPT ![o] = gnow + enforceRateLimit(opStart[o])]
               ELSE /\ opState' = [opState EXCEPT ![o] = "resolved"]
                    /\ UNCHANGED opWake
            /\ UNCHANGED <<keyAvail, opAttempt>>
       ELSE IF handleOperationError(outcome) = NoTime
       THEN \* shouldRetry is false: throw error, reject(error)
            /\ opLoopEnd' = [opLoopEnd EXCEPT ![o] = gnow]
            /\ opState' = [opState EXCEPT ![o] = "rejected"]
            /\ UNCHANGED <<keyAvail, opAttempt, opWake>>
       ELSE /\ keyAvail' = IF outcome = "e429"
                           THEN markRateLimited(currentKey, extractRetryDelay(retryInfo))
                           ELSE keyAvail
            /\ IF handleOperationError(outcome) > 0
               THEN /\ opState' = [opState EXCEPT ![o] = "delay"]
                    /\ opWake' = [opWake EXCEPT ![o] = gnow + handleOperationError(outcome)]
                    /\ UNCHANGED opAttempt
               ELSE /\ opState' = [opState EXCEPT ![o] = "attempt"]
                    /\ opAttempt' = [opAttempt EXCEPT ![o] = @ + 1]
                    /\ UNCHANGED opWake
            /\ UNCHANGED opLoopEnd
    /\ sawInvalid' = IF outcome = "invalid" THEN sawInvalid \cup {currentKey} ELSE sawInvalid
    /\ UNCHANGED <<gnow, requestQueue, opPrev, opStart, currentKey, nextId, startOrder,
                   lastReqStart, reqGap>>

\* _delay inside _handleOperationError is over: next iteration of the loop
DelayDone(o) ==
    /\ opState[o] = "delay"
    /\ gnow >= opWake[o]
    /\ opState' = [opState EXCEPT ![o] = "attempt"]
    /\ opAttempt' = [opAttempt EXCEPT ![o] = @ + 1]
    /\ opWake' = [opWake EXCEPT ![o] = NoTime]
    /\ UNCHANGED <<gnow, requestQueue, opPrev, opStart, opLoopEnd, opKey, keyAvail,
                   currentKey, nextId, startOrder, lastReqStart, reqGap, lastError, sawInvalid>>

\* _delay inside _enforceRateLimit is over: resolve(result)
SpacingDone(o) ==
    /\ opState[o] = "spacing"
    /\ gnow >= opWake[o]
    /\ opState' = [opState EXCEPT ![o] = "resolved"]
    /\ opWake' = [opWake EXCEPT ![o] = NoTime]
    /\ UNCHANGED <<gnow, requestQueue, opPrev, opStart, opAttempt, opLoopEnd, opKey,
                   keyAvail, currentKey, nextId, startOrder, lastReqStart, reqGap,
                   lastError, sawInvalid>>

\* time passes; timers that are due and continuations that are ready run first
GatewayUrgent ==
    \E o \in Ops :
        \/ opState[o] = "attempt"
        \/ (opState[o] = "queued" /\ ChainSettled(opPrev[o]))
        \/ (opState[o] \in {"delay", "spacing"} /\ gnow >= opWake[o])

GatewayTick ==
    /\ ~GatewayUrgent
    /\ gnow + TickMs <= MaxTime
    /\ gnow' = gnow + TickMs
    /\ UNCHANGED <<requestQueue, opState, opPrev, opStart, opAttempt, opWake,
                   opLoopEnd, opKey, keyAvail, currentKey, nextId, startOrder,
                   lastReqStart, reqGap, lastError, sawInvalid>>

GatewayInit ==
    /\ gnow = 0
    /\ requestQueue = NoOp
    /\ opState = [o \in Ops |-> "idle"]
    /\ opPrev = [o \in Ops |-> NoOp]
    /\ opStart = [o \in Ops |-> NoTime]
    /\ opAttempt = [o \in Ops |-> 0]
    /\ opWake = [o \in Ops |-> NoTime]
    /\ opLoopEnd = [o \in Ops |-> NoTime]
    /\ opKey = [o \in Ops |-> NoKey]
    /\ keyAvail = [k \in Keys |-> 0]
    /\ currentKey = NumKeys
    /\ nextId = 0
    /\ startOrder = <<>>
    /\ lastReqStart = NoTime
    /\ reqGap = NoTime
    /\ lastError = [o \in Ops |-> "none"]
    /\ sawInvalid = {}

GatewayNext ==
    \/ \E o \in Ops : executeWithRetry(o)
    \/ \E o \in Ops : BodyStart(o)
    \/ \E o \in Ops : retryWithKeyRotation(o)
    \/ \E o \in Ops, outcome \in Outcomes, retryInfo \in RetryInfos :
            /\ (outcome # "e429" => retryInfo = 0)
            /\ HttpReturn(o, outcome, retryInfo)
    \/ \E o \in Ops : DelayDone(o)
    \/ \E o \in Ops : SpacingDone(o)
    \/ GatewayTick

(***************************************************************************)
(* Reply text.  A text is a sequence of fragments; the sentinel is the     *)
(* fragment "#END_" followed by the fragment "SESSION#", so that a text    *)
(* can hold a broken or a nested sentinel.                                  *)
(***************************************************************************)
Fragments == {"x", " ", "#END_", "SESSION#"}

\* the literal '#END_SESSION#'
END_SESSION == <<"#END_", "SESSION#">>

\* String.prototype.includes
includes(text, pat) ==
    \E i \in 1..(Len(text) - Len(pat) + 1) : SubSeq(text, i, i + Len(pat) - 1) = pat

\* String.prototype.indexOf, for a pattern the text includes
indexOf(text, pat) ==
    CHOOSE i \in 1..(Len(text) - Len(pat) + 1) :
        /\ SubSeq(text, i, i + Len(pat) - 1) = pat
        /\ \A j \in 1..(i - 1) : SubSeq(text, j, j + Len(pat) - 1) # pat

\* String.prototype.replace(pat, '') with a string pattern: the first occurrence only
replace(text, pat) ==
    IF includes(text, pat)
    THEN SubSeq(text, 1, indexOf(text, pat) - 1)
            \o SubSeq(text, indexOf(text, pat) + Len(pat), Len(text))
    ELSE text

\* String.prototype.trim
RECURSIVE trim(_)
trim(text) ==
    IF text = <<>> THEN text
    ELSE IF Head(text) = " " THEN trim(Tail(text))
    ELSE IF text[Len(text)] = " " THEN trim(SubSeq(text, 1, Len(text) - 1))
    ELSE text

\* (mutant) the closing tag is never detected
shouldEndSessionNever(responseText) == FALSE

\* sendResponseAndLog: shouldEndSession
shouldEndSession(responseText) == includes(responseText, END_SESSION)

\* WhatsAppClient.sendResponseAndLog: finalResponse
finalResponse(responseText) ==
    IF includes(responseText, END_SESSION)
    THEN trim(replace(responseText, END_SESSION))
    ELSE responseText

\* TelegramClient.sendResponseAndLog: finalResponse
finalResponseTelegram(responseText) ==
    IF includes(responseText, END_SESSION)
    THEN trim(replace(responseText, END_SESSION))
    ELSE responseText

(***************************************************************************)
(* Session tracker (ConversationManager)                                   *)
(***************************************************************************)
CONVERSATION_TIMEOUT_MS == 20 * 60 * 1000

\* granularity of the session clock: half the timeout
SessionTickMs == CONVERSATION_TIMEOUT_MS \div 2

WaContact == "254700000001@s.whatsapp.net"
TgContact == "700000001"
OwnerContact == "254700000000@s.whatsapp.net"
Contacts == {WaContact, OwnerContact, TgContact}

IsWhatsApp(c) == c \in {WaContact, OwnerContact}

Calls == 1..MaxCalls
NoTimer == 0
NoConv == 0

\* replies the model gives in this specification
SessionReplies == {<<"x">>, <<"x", " ", "#END_", "SESSION#">>}

\* the ConversationManager instance a client holds for a contact: the Telegram
\* client creates one in its constructor, the WhatsApp client a new one at
\* every connection open
ManagerOf(c) == IF IsWhatsApp(c) THEN waGen ELSE 0

ActiveRows(c) ==
    {i \in 1..Len(conversations) :
        conversations[i].contactPhone = c /\ conversations[i].status = "active"}

InFlight(k) == callState[k] \notin {"free", "done"}

\* a further invocation fits the bounds of the model
CanInvoke ==
    /\ numCalls < MaxCalls
    /\ Cardinality({k \in Calls : InFlight(k)}) < MaxInFlight

NoCallInfo == [contact |-> "", trigger |-> "", reply |-> <<>>, mgr |-> 0, at |-> NoTime,
               touched |-> NoTime, conv |-> NoConv]

\* touchConversation, up to its first await: clearTimeout(activeTimers.get(c))
touchConversation(c, responseText) ==
    /\ CanInvoke
    /\ numCalls' = numCalls + 1
    /\ timers' = {t \in timers : t.id # activeTimers[c]}
    /\ callState' = [callState EXCEPT ![numCalls + 1] = "touch_select"]
    /\ callInfo' = [callInfo EXCEPT ![numCalls + 1] =
                        [contact |-> c, trigger |-> "touch", reply |-> responseText,
                         mgr |-> ManagerOf(c), at |-> snow, touched |-> snow,
                         conv |-> NoConv]]
    /\ lastTouch' = [lastTouch EXCEPT ![c] = snow]
    /\ UNCHANGED <<snow, conversations, reportQueue, activeTimers, nextTimer, peer, waGen>>

\* touchConversation: select the active conversation of the contact
TouchSelect(k) ==
    /\ callState[k] = "touch_select"
    /\ callState' = [callState EXCEPT ![k] =
                        IF ActiveRows(callInfo[k].contact) = {}
                        THEN "touch_insert" ELSE "touch_timer"]
    /\ UNCHANGED <<snow, conversations, reportQueue, activeTimers, timers, nextTimer,
                   peer, waGen, numCalls, callInfo, lastTouch>>

\* touchConversation: insert {contactPhone, status: 'active', startedAt}
TouchInsert(k) ==
    /\ callState[k] = "touch_insert"
    /\ conversations' = Append(conversations,
            [contactPhone |-> callInfo[k].contact, status |-> "active",
             startedAt |-> snow, endedAt |-> NoTime, by |-> "", touchedAt |-> NoTime])
    /\ callState' = [callState EXCEPT ![k] = "touch_timer"]
    /\ UNCHANGED <<snow, reportQueue, activeTimers, timers, nextTimer, peer, waGen,
                   numCalls, callInfo, lastTouch>>

\* touchConversation: setTimeout(endConversation, CONVERSATION_TIMEOUT_MS) and
\* activeTimers.set; the map written is the one of the call's own manager
TouchSetTimer(k) ==
    /\ callState[k] = "touch_timer"
    /\ nextTimer' = nextTimer + 1
    /\ timers' = timers \cup {[id |-> nextTimer + 1, contact |-> callInfo[k].contact,
                               fireAt |-> snow + CONVERSATION_TIMEOUT_MS,
                               mgr |-> callInfo[k].mgr]}
    /\ activeTimers' = IF callInfo[k].mgr = ManagerOf(callInfo[k].contact)
                       THEN [activeTimers EXCEPT ![callInfo[k].contact] = nextTimer + 1]
                       ELSE activeTimers
    /\ callState' = [callState EXCEPT ![k] = "done"]
    /\ callInfo' = [callInfo EXCEPT ![k] = NoCallInfo]
    /\ UNCHANGED <<snow, conversations, reportQueue, peer, waGen, numCalls, lastTouch>>

\* endConversation, up to its first await: activeTimers.delete(c)
endConversation(c, trigger, mgr, responseText) ==
    /\ CanInvoke
    /\ numCalls' = numCalls + 1
    /\ activeTimers' = IF mgr = ManagerOf(c)
                       THEN [activeTimers EXCEPT ![c] = NoTimer]
                       ELSE activeTimers
    /\ callState' = [callState EXCEPT ![numCalls + 1] = "end_select"]
    /\ callInfo' = [callInfo EXCEPT ![numCalls + 1] =
                        [contact |-> c, trigger |-> trigger, reply |-> responseText,
                         mgr |-> mgr, at |-> snow, touched |-> lastTouch[c],
                         conv |-> NoConv]]
    /\ UNCHANGED <<snow, conversations, reportQueue, nextTimer, peer, waGen, lastTouch>>

\* endConversation: select the active conversation; without ORDER BY the row
\* that comes first is any of the active rows
EndSelect(k) ==
    /\ callState[k] = "end_select"
    /\ IF ActiveRows(callInfo[k].contact) = {}
       THEN /\ callState' = [callState EXCEPT ![k] = "done"]
            /\ UNCHANGED callInfo
       ELSE \E r \in ActiveRows(callInfo[k].contact) :
                /\ callInfo' = [callInfo EXCEPT ![k].conv = r]
                /\ callState' = [callState EXCEPT ![k] = "end_update"]
    /\ UNCHANGED <<snow, conversations, reportQueue, activeTimers, timers, nextTimer,
                   peer, waGen, numCalls, lastTouch>>

\* endConversation: set({status: 'completed', endedAt: new Date()}); by and
\* touchedAt are history: what triggered the call, and the contact's latest
\* touchConversation when the call was made
completeRow(row, trigger, touched) ==
    [row EXCEPT !.status = "completed", !.endedAt = snow, !.by = trigger,
                !.touchedAt = touched]

EndUpdate(k) ==
    /\ callState[k] = "end_update"
    /\ conversations' = [conversations EXCEPT ![callInfo[k].conv] =
            completeRow(@, callInfo[k].trigger, callInfo[k].touched)]
    /\ callState' = [callState EXCEPT ![k] = "end_enqueue"]
    /\ UNCHANGED <<snow, reportQueue, activeTimers, timers, nextTimer, peer, waGen,
                   numCalls, callInfo, lastTouch>>

\* reportQueueService.enqueue(contactPhone, conversationId, name, lastMessageTime)
enqueue(queue, c, conversationId) ==
    Append(queue, [contactPhone |-> c, conversationId |-> conversationId,
                   status |-> "pending"])

EndEnqueue(k) ==
    /\ callState[k] = "end_enqueue"
    /\ reportQueue' = enqueue(reportQueue, callInfo[k].contact, callInfo[k].conv)
    /\ callState' = [callState EXCEPT ![k] = "done"]
    /\ UNCHANGED <<snow, conversations, activeTimers, timers, nextTimer, peer, waGen,
                   numCalls, callInfo, lastTouch>>

\* sendResponseAndLog, "Manage Session": after the reply was sent and logged,
\* endConversation when the reply held the closing tag, touchConversation otherwise
ManageSession(c, responseText) ==
    IF shouldEndSession(responseText)
    THEN /\ endConversation(c, "sentinel", ManagerOf(c), responseText)
         /\ UNCHANGED timers
    ELSE touchConversation(c, responseText)

\* the silence timer of a contact fires: () => this.endConversation(contactPhone)
TimerFire(t) ==
    /\ t \in timers
    /\ snow >= t.fireAt
    /\ timers' = timers \ {t}
    /\ endConversation(t.contact, "timer", t.mgr, <<>>)

\* WhatsApp connection open: this.conversationManager = new ConversationManager(...)
\* the timers of the manager it replaces stay scheduled
ConnectionOpen ==
    /\ IsWhatsApp(peer)
    /\ waGen < MaxReconnects
    /\ waGen' = waGen + 1
    /\ activeTimers' = [activeTimers EXCEPT ![WaContact] = NoTimer]
    /\ UNCHANGED <<snow, conversations, reportQueue, timers, nextTimer, numCalls,
                   callState, callInfo, lastTouch, peer>>

\* time passes; a database round trip takes less than one tick of this clock,
\* and a timer that is due fires before the clock moves on
SessionUrgent ==
    \/ \E k \in Calls : InFlight(k)
    \/ (numCalls < MaxCalls /\ \E t \in timers : snow >= t.fireAt)

SessionTick ==
    /\ ~SessionUrgent
    /\ snow + SessionTickMs <= SessionTicks * SessionTickMs
    /\ snow' = snow + SessionTickMs
    /\ UNCHANGED <<conversations, reportQueue, activeTimers, timers, nextTimer,
                   peer, waGen, numCalls, callState, callInfo, lastTouch>>

SessionInit ==
    /\ snow = 0
    /\ conversations = <<>>
    /\ reportQueue = <<>>
    /\ activeTimers = [c \in Contacts |-> NoTimer]
    /\ timers = {}
    /\ nextTimer = 0
    /\ waGen = 0
    /\ numCalls = 0
    /\ callState = [k \in Calls |-> "free"]
    /\ callInfo = [k \in Calls |-> NoCallInfo]
    /\ lastTouch = [c \in Contacts |-> NoTime]

SessionNext ==
    \/ \E text \in SessionReplies : ManageSession(peer, text)
    \/ \E k \in Calls : TouchSelect(k)
    \/ \E k \in Calls : TouchInsert(k)
    \/ \E k \in Calls : TouchSetTimer(k)
    \/ \E k \in Calls : EndSelect(k)
    \/ \E k \in Calls : EndUpdate(k)
    \/ \E k \in Calls : EndEnqueue(k)
    \/ \E t \in timers : TimerFire(t)
    \/ ConnectionOpen
    \/ SessionTick

(***************************************************************************)
(* Reply pipeline: WhatsAppClient.processMessageBatch and                  *)
(* TelegramClient.processMessage, for the contact that writes in this run  *)
(***************************************************************************)
MAX_TOOL_DEPTH == 5

Invs == 1..MaxInvocations

\* texts a contact sends
UserTexts == {"ok", "hi"}

\* ignoredPatterns: /^(ok|okay|k|lol|...|nope)\.?$/i on fullText.trim(); a batch
\* of several texts is joined with newlines and does not match
ignoredPatterns(messages) == Len(messages) = 1 /\ messages[1] \in {"ok"}

\* canned texts of the clients
FAILOVER_MESSAGE == <<"research_loop">>
AI_ERROR_TOOL_NOTE == <<"ai_error_during_tool">>
TELEGRAM_TROUBLE == <<"trouble_thinking">>

\* ERROR_MESSAGES.CONNECTION_ERROR of the gateway
CONNECTION_ERROR == <<"trouble_connecting">>

\* ERROR_CODES.ALL_KEYS_EXHAUSTED
ALL_KEYS_EXHAUSTED == "ALL_KEYS_EXHAUSTED"

\* what generateReply gives back: a tool call, a text (trimmed, maybe empty),
\* or it throws ALL_KEYS_EXHAUSTED; when the operation fails with another error
\* _handleGenerateReplyError makes CONNECTION_ERROR the text of the answer
ToolCall == [type |-> "tool_call", content |-> <<>>]
TextReply(t) == [type |-> "text", content |-> t]
Thrown == [type |-> "throw", content |-> <<>>]
PipelineReplies == {<<>>, <<"x">>, <<"x", " ", "#END_", "SESSION#">>}
GeminiResponses ==
    {ToolCall, Thrown, TextReply(CONNECTION_ERROR)} \cup {TextReply(t) : t \in PipelineReplies}

isOwner(c) == c = OwnerContact

\* let geminiResponse; before the first answer
Undefined == [type |-> "undefined", content |-> <<>>]

\* the locals of an invocation; when it has returned, the last answer of
\* generateReply and the error it caught are kept, the others are gone
NoInvocation ==
    [pc |-> "free", source |-> "", messages |-> <<>>, toolDepth |-> 0,
     toolCalls |-> 0, llmCalls |-> 0, geminiResponse |-> Undefined, error |-> ""]

Running(b) == inv[b].pc \notin {"free", "done"}

\* messageSender.sendText / sock.sendMessage by invocation b
sendText(b, text) == outbox \cup {[by |-> b, text |-> text]}

\* the rows of message_logs with role 'agent'
AgentRows == {row \in messageLogs : row.role = "agent"}

\* insert into message_logs by invocation b; the row comes after the agent rows
\* that are in the table (createdAt)
logMessage(b, role, content) ==
    messageLogs \cup {[by |-> b, role |-> role, content |-> content,
                       after |-> Cardinality(AgentRows)]}

\* messageQueueService.enqueue: a pending row is appended to message_queue
mqEnqueue(messages, priority) ==
    Append(mqRows, [messages |-> messages, priority |-> priority])

\* processMessageBatch, steps 0 and 1, which run before the first await: the
\* batch of a contact other than the owner is dropped when it is an
\* acknowledgement, and put aside when the rate limit is on
\* (mutant) step 0 is left out
shortCircuitNever(messages) == FALSE
shortCircuit(messages) == ~isOwner(peer) /\ ignoredPatterns(messages)
putAside(messages, limited) == ~shortCircuit(messages) /\ limited /\ ~isOwner(peer)
goesOn(messages, limited) == ~shortCircuit(messages) /\ ~putAside(messages, limited)

\* processMessageBatch is called: it returns at step 0 or 1, or goes on to the
\* contact lookup
Invoke(source, messages, limited) ==
    /\ numInv < MaxInvocations
    /\ numInv' = numInv + 1
    /\ inv' = [inv EXCEPT ![numInv + 1] =
                   IF goesOn(messages, limited)
                   THEN [NoInvocation EXCEPT !.pc = "begin", !.source = source,
                                             !.messages = messages]
                   ELSE [NoInvocation EXCEPT !.pc = "done"]]
    /\ rlQueue' = IF putAside(messages, limited)
                  THEN Append(rlQueue, messages) ELSE rlQueue

\* the invocation returns; a worker gives its lease and lock back
ReturnWith(b, r, error) ==
    /\ inv' = [inv EXCEPT ![b] = [NoInvocation EXCEPT !.pc = "done",
                                                      !.geminiResponse = r,
                                                      !.error = error]]
    /\ locked' = IF inv[b].source = "worker" THEN FALSE ELSE locked

Return(b) == ReturnWith(b, inv[b].geminiResponse, "")

\* WhatsApp handleIncomingMessage: the contact row is ensured and the text is
\* added to the debounce buffer (this.messageBuffer.add)
handleIncomingMessage(text) ==
    /\ IsWhatsApp(peer)
    /\ text = userText
    /\ Len(buffer) + numInv < MaxInvocations
    /\ contactExists' = TRUE
    /\ buffer' = Append(buffer, text)
    /\ UNCHANGED <<inv, numInv, mqRows, locked, rateLimited, rlQueue, messageLogs,
                   outbox, sessionCalls, userText>>

\* MessageBuffer: the debounce timer fires, the buffer is taken and handed to
\* the callback (jid, messages) => this.processMessageBatch(jid, messages)
FlushBuffer ==
    /\ IsWhatsApp(peer)
    /\ buffer # <<>>
    /\ buffer' = <<>>
    /\ Invoke("buffer", buffer, rateLimited)
    /\ UNCHANGED <<mqRows, locked, rateLimited, messageLogs, outbox, sessionCalls,
                   contactExists, userText>>

\* WorkerPool: a worker leases the oldest pending message_queue row of the
\* contact under the contact's advisory lock and runs processMessageBatch on
\* it; the lock is held until processMessageBatch has returned
WorkerLease ==
    /\ IsWhatsApp(peer)
    /\ mqRows # <<>>
    /\ ~locked
    /\ locked' = goesOn(Head(mqRows).messages, rateLimited)
    /\ mqRows' = Tail(mqRows)
    /\ Invoke("worker", Head(mqRows).messages, rateLimited)
    /\ UNCHANGED <<buffer, rateLimited, messageLogs, outbox, sessionCalls,
                   contactExists, userText>>

\* rateLimitManager.processQueue(processMessageBatch): the limit is over and a
\* batch that was put aside is replayed
processQueue ==
    /\ IsWhatsApp(peer)
    /\ rlQueue # <<>>
    /\ rateLimited' = FALSE
    /\ numInv < MaxInvocations
    /\ numInv' = numInv + 1
    /\ inv' = [inv EXCEPT ![numInv + 1] =
                   IF goesOn(Head(rlQueue), FALSE)
                   THEN [NoInvocation EXCEPT !.pc = "begin", !.source = "replay",
                                             !.messages = Head(rlQueue)]
                   ELSE [NoInvocation EXCEPT !.pc = "done"]]
    /\ rlQueue' = Tail(rlQueue)
    /\ UNCHANGED <<buffer, mqRows, locked, messageLogs, outbox, sessionCalls,
                   contactExists, userText>>

\* Telegram handleIncomingMessage: get or create the contact, log the user's
\* text and call processMessage
TelegramMessage(text) ==
    /\ peer = TgContact
    /\ text = userText
    /\ contactExists' = TRUE
    /\ numInv < MaxInvocations
    /\ numInv' = numInv + 1
    /\ inv' = [inv EXCEPT ![numInv + 1] =
                   [NoInvocation EXCEPT !.pc = "generate", !.source = "telegram",
                                        !.messages = <<text>>]]
    /\ messageLogs' = logMessage(numInv + 1, "user", <<text>>)
    /\ UNCHANGED <<buffer, mqRows, locked, rateLimited, rlQueue, outbox, sessionCalls,
                   userText>>

\* processMessageBatch, steps 2 to 4: get the contact, log the user's input
Begin(b) ==
    /\ inv[b].pc = "begin"
    /\ IF ~contactExists
       THEN Return(b) /\ UNCHANGED messageLogs
       ELSE /\ messageLogs' = logMessage(b, "user", inv[b].messages)
            /\ inv' = [inv EXCEPT ![b].pc = "generate"]
            /\ UNCHANGED locked
    /\ UNCHANGED <<numInv, buffer, mqRows, rateLimited, rlQueue, outbox, sessionCalls,
                   contactExists, userText>>

\* the while condition of "Handle Tool Calls"
loopContinues(resp, toolDepth) == resp.type = "tool_call" /\ toolDepth < MAX_TOOL_DEPTH

CountCall(r) == IF r.type = "tool_call" THEN 1 ELSE 0

\* "Send Final Response" of processMessageBatch: the text to send, if any
finalOfBatch(resp) ==
    IF resp.type = "text" /\ resp.content # <<>> THEN resp.content
    ELSE IF resp.type = "tool_call" THEN FAILOVER_MESSAGE
    ELSE <<>>

\* "Send Final Response" of processMessage (Telegram)
finalOfMessage(resp) ==
    IF resp.type = "text" /\ resp.content # <<>> THEN resp.content ELSE <<>>

\* finalResponse of the client the invocation runs in
finalResponseOf(source, responseText) ==
    IF source = "telegram" THEN finalResponseTelegram(responseText)
    ELSE finalResponse(responseText)

\* sendResponseAndLog of invocation b: the stripped text is sent, logged with
\* role 'agent', and endConversation or touchConversation is called (not
\* awaited); sent holds what the contact has been sent before
sendResponseAndLog(b, responseText, sent) ==
    /\ outbox' = sent \cup
            {[by |-> b, text |-> finalResponseOf(inv[b].source, responseText)]}
    /\ messageLogs' = logMessage(b, "agent", finalResponseOf(inv[b].source, responseText))
    /\ sessionCalls' = sessionCalls \cup
            {[by |-> b,
              call |-> IF shouldEndSession(responseText) THEN "end" ELSE "touch"]}

\* step 7, "Send Final Response", with response resp, and the return of the
\* invocation
SendFinalResponse(b, resp, error, sent) ==
    /\ LET text == IF inv[b].source = "telegram"
                   THEN finalOfMessage(resp) ELSE finalOfBatch(resp)
       IN IF text = <<>>
          THEN outbox' = sent /\ UNCHANGED <<messageLogs, sessionCalls>>
          ELSE sendResponseAndLog(b, text, sent)
    /\ ReturnWith(b, resp, error)

\* generateReply answers with r: the loop goes on, or step 7 follows
Answered(b, r, toolDepth) ==
    IF loopContinues(r, toolDepth)
    THEN /\ inv' = [inv EXCEPT ![b].geminiResponse = r,
                               ![b].toolDepth = toolDepth,
                               ![b].toolCalls = @ + 1,
                               ![b].llmCalls = @ + 1,
                               ![b].pc = "tool"]
         /\ UNCHANGED <<outbox, messageLogs, sessionCalls, locked>>
    ELSE SendFinalResponse(b, r, "", outbox)

\* the first generateReply returns or throws
Generate(b, r) ==
    /\ inv[b].pc = "generate"
    /\ IF r.type = "throw"
       THEN IF inv[b].source = "telegram"
            THEN \* catch of processMessage: the contact is sent a canned text
                 /\ outbox' = sendText(b, TELEGRAM_TROUBLE)
                 /\ ReturnWith(b, inv[b].geminiResponse, ALL_KEYS_EXHAUSTED)
                 /\ UNCHANGED <<mqRows, messageLogs, sessionCalls>>
            ELSE \* the batch is queued for later processing
                 /\ mqRows' = mqEnqueue(inv[b].messages,
                                        IF isOwner(peer) THEN "owner" ELSE "normal")
                 /\ ReturnWith(b, inv[b].geminiResponse, ALL_KEYS_EXHAUSTED)
                 /\ UNCHANGED <<outbox, messageLogs, sessionCalls>>
       ELSE /\ Answered(b, r, 0)
            /\ UNCHANGED mqRows
    /\ UNCHANGED <<numInv, buffer, rateLimited, rlQueue, contactExists, userText>>

\* one turn of the tool loop: executeLocalTool, then generateReply returns or throws
ToolTurn(b, r) ==
    /\ inv[b].pc = "tool"
    /\ IF r.type = "throw"
       THEN IF inv[b].source = "telegram"
            THEN /\ outbox' = sendText(b, TELEGRAM_TROUBLE)
                 /\ ReturnWith(b, inv[b].geminiResponse, ALL_KEYS_EXHAUSTED)
                 /\ UNCHANGED <<rateLimited, rlQueue, messageLogs, sessionCalls>>
            ELSE IF ~isOwner(peer)
            THEN \* rate limit during tool execution: the batch is put aside
                 /\ rateLimited' = TRUE
                 /\ rlQueue' = Append(rlQueue, inv[b].messages)
                 /\ ReturnWith(b, inv[b].geminiResponse, ALL_KEYS_EXHAUSTED)
                 /\ UNCHANGED <<outbox, messageLogs, sessionCalls>>
            ELSE \* the owner is sent the error, then break: step 7 follows
                 \* with the response that asked for the tool
                 /\ SendFinalResponse(b, inv[b].geminiResponse, ALL_KEYS_EXHAUSTED,
                                      sendText(b, AI_ERROR_TOOL_NOTE))
                 /\ UNCHANGED <<rateLimited, rlQueue>>
       ELSE /\ Answered(b, r, inv[b].toolDepth + 1)
            /\ UNCHANGED <<rateLimited, rlQueue>>
    /\ UNCHANGED <<numInv, buffer, mqRows, contactExists, userText>>

ReplyInit ==
    /\ inv = [b \in Invs |-> NoInvocation]
    /\ numInv = 0
    /\ buffer = <<>>
    /\ mqRows = <<>>
    /\ locked = FALSE
    /\ rateLimited = FALSE
    /\ rlQueue = <<>>
    /\ messageLogs = {}
    /\ outbox = {}
    /\ sessionCalls = {}
    /\ contactExists = FALSE

ReplyNext ==
    \/ \E text \in UserTexts : handleIncomingMessage(text)
    \/ FlushBuffer
    \/ WorkerLease
    \/ processQueue
    \/ \E text \in UserTexts : TelegramMessage(text)
    \/ \E b \in Invs : Begin(b)
    \/ \E b \in Invs, r \in GeminiResponses : Generate(b, r)
    \/ \E b \in Invs, r \in GeminiResponses : ToolTurn(b, r)

(***************************************************************************)
(* sendResponseAndLog on its own, for every model output up to MaxTextLen   *)
(***************************************************************************)
Transports == {"whatsapp", "telegram"}

\* every sequence of fragments of length at most n
RECURSIVE TextsUpTo(_)
TextsUpTo(n) ==
    IF n = 0 THEN {<<>>}
    ELSE TextsUpTo(n - 1) \cup
         {Append(t, f) : t \in {u \in TextsUpTo(n - 1) : Len(u) = n - 1}, f \in Fragments}

\* "Send response": sendText(remoteJid, finalResponse)
SendResponse ==
    /\ stripPc = "call"
    /\ sentText' = IF transport = "telegram" THEN finalResponseTelegram(modelOutput)
                   ELSE finalResponse(modelOutput)
    /\ stripPc' = "sent"
    /\ UNCHANGED <<modelOutput, transport, loggedText>>

\* "Log Outgoing": insert into message_logs, role 'agent', content finalResponse
LogOutgoing ==
    /\ stripPc = "sent"
    /\ loggedText' = IF transport = "telegram" THEN finalResponseTelegram(modelOutput)
                     ELSE finalResponse(modelOutput)
    /\ stripPc' = "logged"
    /\ UNCHANGED <<modelOutput, transport, sentText>>

StripInit ==
    /\ stripPc = "call"
    /\ sentText = <<>>
    /\ loggedText = <<>>

StripNext == SendResponse \/ LogOutgoing

(***************************************************************************)
(* The tool executor: executeLocalTool, with the identity step of the      *)
(* batch before it and the catch of the tool loop around it                *)
(***************************************************************************)

OwnerOnlyTools == {"get_daily_summary", "search_all_conversations",
                   "get_recent_conversations", "get_system_status", "get_analytics"}

\* the cases of the switch in executeLocalTool
KnownTools == {"update_contact_info", "check_schedule", "search_messages"}
                \cup OwnerOnlyTools
                \cup {"check_availability", "schedule_meeting", "get_current_time",
                      "browse_url", "search_web"}

\* the name the contact gives, in the text and in the arguments of update_contact_info
GivenName == "Ann"

\* JavaScript values a tool returns: a bare string, or an object with one field
JsString(s) == [type |-> "string", field |-> "", value |-> s]
JsObject(field, s) == [type |-> "object", field |-> field, value |-> s]

Returned(v) == [threw |-> FALSE, value |-> v]
Threw == [threw |-> TRUE, value |-> JsString("")]

\* ownerTools.getDailySummary and the like: called with the arguments of the
\* tool only, they give the data asked for or throw
ownerTools(outcome) == IF outcome = "throws" THEN Threw ELSE Returned("owner_data")

\* googleCalendar.listEvents: a string in every case, errors caught inside
listEvents(outcome) ==
    CASE outcome = "data" -> "events"
      [] outcome = "empty" -> "no_events_found"
      [] OTHER -> "unable_to_access_calendar"

\* what executeLocalTool(name, args, context) returns or throws
executeLocalTool(name, outcome) ==
    CASE name = "update_contact_info" ->
            Returned(JsObject("result", "contact_info_updated"))
      [] name = "check_schedule" ->
            Returned(JsString(listEvents(outcome)))
      [] name = "search_messages" ->
            IF outcome = "throws" THEN Returned(JsObject("error", "database_search_failed"))
            ELSE IF outcome = "empty" THEN Returned(JsObject("result", "no_messages_found"))
            ELSE Returned(JsObject("result", "messages"))
      [] name \in OwnerOnlyTools ->
            IF ownerTools(outcome).threw THEN Threw
            ELSE Returned(JsObject("result", ownerTools(outcome).value))
      [] name = "check_availability" ->
            IF outcome = "data" THEN Returned(JsObject("result", "available_slots"))
            ELSE Returned(JsObject("result", "no_slots"))
      [] name = "schedule_meeting" ->
            IF outcome = "data" THEN Returned(JsObject("result", "meeting_scheduled"))
            ELSE Returned(JsObject("error", "failed_to_schedule"))
      [] name = "get_current_time" ->
            Returned(JsObject("result", "current_time"))
      [] name \in {"browse_url", "search_web"} ->
            IF outcome = "throws" THEN Returned(JsObject("error", "failed_to_browse"))
            ELSE Returned(JsObject("result", "content"))
      [] OTHER ->
            Returned(JsObject("error", "tool_not_found"))

\* toolResult of the loop: what executeLocalTool returned, or the error object
\* the catch around it makes
toolResult ==
    IF toolReturn.threw THEN JsObject("error", "tool_failed") ELSE toolReturn.value

\* a row of contacts, as far as the identity rule goes
ContactRow(confirmedName, isVerified, originalPushname, markers) ==
    [confirmedName |-> confirmedName, isVerified |-> isVerified,
     originalPushname |-> originalPushname, markers |-> markers]

\* IdentityValidator.extractNameFromMessage: the extraction is switched off
extractNameFromMessage(message) == ""

\* IdentityValidator.isValidName, for the names of the model: a missing name
\* is not valid, the given name is
isValidName(name) == name # ""

\* (mutant) the rule applied to a verified contact as well
IdentityValidationAlways ==
    /\ toolPc = "identity"
    /\ IF isOwner(peer)
       THEN contactRow' = contactRow /\ systemPrompt' = "undefined"
       ELSE IF ~IsWhatsApp(peer)
       THEN contactRow' = contactRow /\ systemPrompt' = "identity_discovery"
       ELSE IF extractedName # ""
       THEN /\ contactRow' = [contactRow EXCEPT !.confirmedName = extractedName,
                                                !.isVerified = TRUE,
                                                !.markers = @ + 1]
            /\ systemPrompt' = "undefined"
       ELSE LET currentName == IF contactRow.confirmedName # "" THEN contactRow.confirmedName
                                                               ELSE contactRow.originalPushname
            IN /\ contactRow' = contactRow
               /\ systemPrompt' = IF isValidName(currentName) THEN "undefined"
                                                              ELSE "identity_discovery"
    /\ toolPc' = "tool"
    /\ UNCHANGED <<functionCall, serviceOutcome, extractedName, toolReturn>>

\* step 3 of the batch, "Identity Validation Logic", for a contact that is
\* neither verified nor the owner: on WhatsApp a name found in the text is
\* written to the row with a marker in the summary, and without one the model
\* is told to ask when the name on record is no name; on Telegram the model
\* is told to ask
IdentityValidation ==
    /\ toolPc = "identity"
    /\ IF contactRow.isVerified \/ isOwner(peer)
       THEN contactRow' = contactRow /\ systemPrompt' = "undefined"
       ELSE IF ~IsWhatsApp(peer)
       THEN contactRow' = contactRow /\ systemPrompt' = "identity_discovery"
       ELSE IF extractedName # ""
       THEN /\ contactRow' = [contactRow EXCEPT !.confirmedName = extractedName,
                                                !.isVerified = TRUE,
                                                !.markers = @ + 1]
            /\ systemPrompt' = "undefined"
       ELSE LET currentName == IF contactRow.confirmedName # "" THEN contactRow.confirmedName
                                                               ELSE contactRow.originalPushname
            IN /\ contactRow' = contactRow
               /\ systemPrompt' = IF isValidName(currentName) THEN "undefined"
                                                              ELSE "identity_discovery"
    /\ toolPc' = "tool"
    /\ UNCHANGED <<functionCall, serviceOutcome, extractedName, toolReturn>>

\* "Execute Tool": the model answered with a call of functionCall
ExecuteTool ==
    /\ toolPc = "tool"
    /\ toolReturn' = executeLocalTool(functionCall, serviceOutcome)
    /\ toolPc' = "fed"
    /\ UNCHANGED <<functionCall, serviceOutcome, extractedName, contactRow, systemPrompt>>

ToolsInit ==
    /\ toolPc = "identity"
    /\ systemPrompt = "undefined"
    /\ toolReturn = Returned(JsString(""))

ToolsNext == IdentityValidation \/ ExecuteTool

(***************************************************************************)
(* The credential store: usePostgresAuthState                              *)
(***************************************************************************)

WRITE_MAX_RETRIES == 3

AuthOps == 1..MaxAuthOps
AuthIds == {"creds", "pre-key:1"}

\* data handed to the store: a Buffer, a string, an object with a Buffer in a field
JsBuffer(bytes) == [type |-> "Buffer", field |-> "", value |-> bytes]
JsText(chars) == [type |-> "string", field |-> "", value |-> chars]
JsHolder(field, leaf) == [leaf EXCEPT !.field = field]
JsNull == [type |-> "null", field |-> "", value |-> <<>>]

AuthData == {JsText(<<"a">>), JsHolder("noiseKey", JsBuffer(<<"01", "ff">>))}

\* what is written under a key: saveCreds writes creds, keys.set writes the
\* key material of a category, which holds Buffers
DataOf(id) == IF id = "creds" THEN AuthData ELSE {d \in AuthData : d.type = "Buffer"}

\* Buffer.toString('base64') and Buffer.from(text, 'base64'), byte by byte
toBase64(bytes) ==
    [i \in DOMAIN bytes |->
        CASE bytes[i] = "00" -> "AA" [] bytes[i] = "01" -> "AQ" [] OTHER -> "/w"]
fromBase64(chars) ==
    [i \in DOMAIN chars |->
        CASE chars[i] = "AA" -> "00" [] chars[i] = "AQ" -> "01" [] OTHER -> "ff"]

\* JSON.stringify(data, BufferJSON.replacer): a Buffer becomes
\* { type: 'Buffer', data: base64 }
replacer(v) ==
    IF v.type = "Buffer" THEN [v EXCEPT !.type = "BufferJSON", !.value = toBase64(v.value)]
    ELSE v

\* (mutant) a reviver that leaves every value as JSON.parse made it
reviverPlain(v) == v

\* JSON.parse(value, BufferJSON.reviver): { type: 'Buffer', data } becomes a
\* Buffer again
reviver(v) ==
    IF v.type = "BufferJSON" THEN [v EXCEPT !.type = "Buffer", !.value = fromBase64(v.value)]
    ELSE v

\* no row of the key
NoRow == [type |-> "norow", field |-> "", value |-> <<>>]

NoAuthOp == [kind |-> "none", id |-> "creds", data |-> JsNull, pc |-> "free",
             attempt |-> 0, existing |-> FALSE, result |-> JsNull, failed |-> FALSE]

\* what is left of a call that has returned
Finished(op) == [NoAuthOp EXCEPT !.pc = "done"]

\* a call of writeData, readData or removeData starts
StartAuthOp(kind, id, data) ==
    /\ numAuthOps < MaxAuthOps
    /\ numAuthOps' = numAuthOps + 1
    /\ authOps' = [authOps EXCEPT ![numAuthOps + 1] =
                      [NoAuthOp EXCEPT !.kind = kind, !.id = id, !.data = data,
                                       !.pc = "select", !.attempt = 1]]
    /\ overlapped' = [overlapped EXCEPT ![id] =
                          @ \/ \E k \in AuthOps : /\ authOps[k].pc \notin {"free", "done"}
                                                   /\ authOps[k].id = id]
    /\ UNCHANGED <<authCredentials, lastCompleted, gaveUp>>

writeData(data, id) == StartAuthOp("write", id, data)
readData(id) == StartAuthOp("read", id, JsNull)
removeData(id) == StartAuthOp("remove", id, JsNull)

\* what is left of a write that gave up
GaveUp(op) == [Finished(op) EXCEPT !.kind = "write", !.failed = TRUE]

\* (mutant) the catch gives up one attempt late
WriteCatchOneMore(k) ==
    /\ authOps' = [authOps EXCEPT ![k] =
                      IF @.attempt > WRITE_MAX_RETRIES
                      THEN GaveUp(@)
                      ELSE [@ EXCEPT !.pc = "select", !.attempt = @ + 1]]
    /\ gaveUp' = [gaveUp EXCEPT ![authOps[k].id] =
                      @ \/ authOps[k].attempt > WRITE_MAX_RETRIES]

\* writeData, catch: another attempt after the backoff, or give up after the
\* third: the loop ends and the call returns
WriteCatch(k) ==
    /\ authOps' = [authOps EXCEPT ![k] =
                      IF @.attempt = WRITE_MAX_RETRIES
                      THEN GaveUp(@)
                      ELSE [@ EXCEPT !.pc = "select", !.attempt = @ + 1]]
    /\ gaveUp' = [gaveUp EXCEPT ![authOps[k].id] =
                      @ \/ authOps[k].attempt = WRITE_MAX_RETRIES]

\* writeData: const existing = await db.select()...
WriteSelect(k, fails) ==
    /\ authOps[k].kind = "write" /\ authOps[k].pc = "select"
    /\ IF fails
       THEN WriteCatch(k)
       ELSE /\ authOps' = [authOps EXCEPT ![k].pc = "apply",
                                          ![k].existing = authCredentials[authOps[k].id] # NoRow]
            /\ UNCHANGED gaveUp
    /\ UNCHANGED <<authCredentials, numAuthOps, lastCompleted, overlapped>>

\* writeData: db.update(...).set({ value }) or db.insert(...).values({ key, value });
\* the insert of a key that has a row by now violates the primary key
WriteApply(k, fails) ==
    LET op == authOps[k]
        conflict == ~op.existing /\ authCredentials[op.id] # NoRow
    IN
    /\ op.kind = "write" /\ op.pc = "apply"
    /\ IF fails \/ conflict
       THEN /\ conflict => ~fails
            /\ WriteCatch(k)
            /\ UNCHANGED authCredentials
       ELSE /\ authCredentials' =
                  IF op.existing /\ authCredentials[op.id] = NoRow
                  THEN authCredentials     \* the update finds no row
                  ELSE [authCredentials EXCEPT ![op.id] = replacer(op.data)]
            /\ authOps' = [authOps EXCEPT ![k].pc = "return"]
            /\ UNCHANGED gaveUp
    /\ UNCHANGED <<numAuthOps, lastCompleted, overlapped>>

\* readData: select the row and parse its value; null without a row or on an error
ReadSelect(k, fails) ==
    LET op == authOps[k] IN
    /\ op.kind = "read" /\ op.pc = "select"
    /\ authOps' = [authOps EXCEPT ![k] =
          [Finished(op) EXCEPT
                    !.kind = "read",
                    !.failed = fails,
                    !.result = IF fails \/ authCredentials[op.id] = NoRow THEN JsNull
                               ELSE reviver(authCredentials[op.id])]]
    /\ UNCHANGED <<authCredentials, numAuthOps, lastCompleted, gaveUp, overlapped>>

\* removeData: db.delete(...); an error is logged and swallowed
RemoveDelete(k, fails) ==
    LET op == authOps[k] IN
    /\ op.kind = "remove" /\ op.pc = "select"
    /\ authCredentials' = IF fails THEN authCredentials
                          ELSE [authCredentials EXCEPT ![op.id] = NoRow]
    /\ authOps' = [authOps EXCEPT ![k].pc = "return", ![k].failed = fails]
    /\ gaveUp' = [gaveUp EXCEPT ![op.id] = @ \/ fails]
    /\ UNCHANGED <<numAuthOps, lastCompleted, overlapped>>

\* writeData or removeData returns to its caller
AuthReturn(k) ==
    LET op == authOps[k] IN
    /\ op.pc = "return"
    /\ authOps' = [authOps EXCEPT ![k] = Finished(op)]
    /\ lastCompleted' =
          IF op.failed THEN lastCompleted
          ELSE [lastCompleted EXCEPT ![op.id] = op.data]
    /\ UNCHANGED <<authCredentials, numAuthOps, gaveUp, overlapped>>

\* the table as the writes of the session so far have left it
StoredBy(written) ==
    [id \in AuthIds |-> IF written[id] = JsNull THEN NoRow ELSE replacer(written[id])]

AuthInit ==
    /\ authCredentials = StoredBy(lastCompleted)
    /\ authOps = [k \in AuthOps |-> NoAuthOp]
    /\ numAuthOps = 0
    /\ gaveUp = [id \in AuthIds |-> FALSE]
    /\ overlapped = [id \in AuthIds |-> FALSE]

AuthNext ==
    \/ \E id \in AuthIds : \E data \in DataOf(id) : writeData(data, id)
    \/ \E id \in AuthIds : readData(id)
    \/ \E id \in AuthIds : removeData(id)
    \/ \E k \in AuthOps, fails \in BOOLEAN : WriteSelect(k, fails)
    \/ \E k \in AuthOps, fails \in BOOLEAN : WriteApply(k, fails)
    \/ \E k \in AuthOps, fails \in BOOLEAN : ReadSelect(k, fails)
    \/ \E k \in AuthOps, fails \in BOOLEAN : RemoveDelete(k, fails)
    \/ \E k \in AuthOps : AuthReturn(k)

(***************************************************************************)
(* The making of the auth state: creds and saveCreds                       *)
(***************************************************************************)

\* initAuthCreds(): credentials of a session that is not paired yet
initAuthCreds == JsHolder("noiseKey", JsBuffer(<<"00", "00">>))

NoCreds == [type |-> "unset", field |-> "", value |-> <<>>]

\* usePostgresAuthState is called: await readData('creds')
usePostgresAuthState ==
    /\ creds = NoCreds
    /\ numAuthOps = 0
    /\ readData("creds")
    /\ UNCHANGED uvars

\* const creds = (await readData('creds')) || initAuthCreds()
credsOfRead(k) ==
    creds' = IF authOps'[k].result = JsNull THEN initAuthCreds ELSE authOps'[k].result

\* the read of usePostgresAuthState returns and the auth state is made
AuthStateMade(k, fails) ==
    /\ creds = NoCreds
    /\ ReadSelect(k, fails)
    /\ credsOfRead(k)
    /\ credsReadFailed' = fails

\* saveCreds: () => writeData(creds, 'creds'), the handler of creds.update
saveCreds ==
    /\ creds # NoCreds
    /\ writeData(creds, "creds")
    /\ UNCHANGED uvars

\* keys.set and keys.get of the auth state, and the steps of the calls
KeysAndSteps ==
    /\ creds # NoCreds
    /\ \/ \E data \in DataOf("pre-key:1") : writeData(data, "pre-key:1")
       \/ readData("pre-key:1")
       \/ removeData("pre-key:1")
       \/ \E k \in AuthOps, fails \in BOOLEAN : WriteSelect(k, fails)
       \/ \E k \in AuthOps, fails \in BOOLEAN : WriteApply(k, fails)
       \/ \E k \in AuthOps, fails \in BOOLEAN : ReadSelect(k, fails)
       \/ \E k \in AuthOps, fails \in BOOLEAN : RemoveDelete(k, fails)
       \/ \E k \in AuthOps : AuthReturn(k)
    /\ UNCHANGED uvars

CredsInit ==
    /\ creds = NoCreds
    /\ credsReadFailed = FALSE

CredsNext ==
    \/ usePostgresAuthState
    \/ \E k \in AuthOps, fails \in BOOLEAN : AuthStateMade(k, fails)
    \/ saveCreds
    \/ KeysAndSteps

(***************************************************************************)
(* POST /api/disconnect and WhatsAppClient.logout / initialize             *)
(***************************************************************************)

\* setTimeout(() => this.initialize(), 2000)
REINIT_DELAY_MS == 2000

\* the route handler throws: catch, res.status(500)
RouteFails ==
    /\ routePc' = "failed"
    /\ disconnectLog' = Append(disconnectLog, "failure")

\* the request arrives: whatsappClient.logout() is called; without a socket it
\* returns at once and the handler goes on to releaseLock
PostDisconnect ==
    /\ routePc = "idle"
    /\ isLoggingOut' = TRUE
    /\ routePc' = IF sock THEN "logout" ELSE "release"
    /\ disconnectLog' = IF sock THEN disconnectLog ELSE Append(disconnectLog, "logout")
    /\ UNCHANGED <<dnow, sock, reinitTimer, initPc, lockHeld, credsStored>>

\* await this.sock.logout() is over
SockLogoutDone(ok) ==
    /\ routePc = "logout"
    /\ IF ok
       THEN /\ sock' = FALSE
            /\ reinitTimer' = dnow + REINIT_DELAY_MS
            /\ initPc' = "none"
            /\ routePc' = "release"
            /\ disconnectLog' = Append(disconnectLog, "logout")
       ELSE /\ RouteFails
            /\ UNCHANGED <<sock, reinitTimer, initPc>>
    /\ UNCHANGED <<dnow, isLoggingOut, lockHeld, credsStored>>

\* await sessionManager.releaseLock() is over
ReleaseLockDone(ok) ==
    /\ routePc = "release"
    /\ IF ok
       THEN /\ lockHeld' = FALSE
            /\ routePc' = "wipe"
            /\ disconnectLog' = Append(disconnectLog, "releaseLock")
       ELSE /\ RouteFails
            /\ UNCHANGED lockHeld
    /\ UNCHANGED <<dnow, sock, isLoggingOut, reinitTimer, initPc, credsStored>>

\* await db.delete(authCredentials) is over; res.json({ success: true }) follows
WipeDone(ok) ==
    /\ routePc = "wipe"
    /\ IF ok
       THEN /\ credsStored' = FALSE
            /\ routePc' = "responded"
            /\ disconnectLog' = disconnectLog \o <<"wipe", "success">>
       ELSE /\ RouteFails
            /\ UNCHANGED credsStored
    /\ UNCHANGED <<dnow, sock, isLoggingOut, reinitTimer, initPc, lockHeld>>

\* the timer of logout() is due: initialize() starts
initialize ==
    /\ reinitTimer # NoTime
    /\ dnow >= reinitTimer
    /\ reinitTimer' = NoTime
    /\ isLoggingOut' = FALSE
    /\ initPc' = "waitForLock"
    /\ disconnectLog' = Append(disconnectLog, "initialize")
    /\ UNCHANGED <<dnow, routePc, sock, lockHeld, credsStored>>

\* sessionManager.waitForLock: the lock is taken once it is free
waitForLock ==
    /\ initPc = "waitForLock"
    /\ ~lockHeld
    /\ lockHeld' = TRUE
    /\ initPc' = "auth"
    /\ UNCHANGED <<dnow, routePc, sock, isLoggingOut, reinitTimer, credsStored,
                   disconnectLog>>

\* usePostgresAuthState and makeWASocket: the socket is there again
makeWASocket ==
    /\ initPc = "auth"
    /\ sock' = TRUE
    /\ initPc' = "connected"
    /\ UNCHANGED <<dnow, routePc, isLoggingOut, reinitTimer, lockHeld, credsStored,
                   disconnectLog>>

\* time passes, but not past a timer that is due
DisconnectTick ==
    /\ reinitTimer # NoTime => dnow < reinitTimer
    /\ dnow + TickMs <= MaxTime
    /\ dnow' = dnow + TickMs
    /\ UNCHANGED <<routePc, sock, isLoggingOut, reinitTimer, initPc, lockHeld,
                   credsStored, disconnectLog>>

\* the process runs, connected with stored credentials and the lock held, or
\* without a socket
DisconnectInit ==
    /\ dnow = 0
    /\ routePc = "idle"
    /\ isLoggingOut = FALSE
    /\ reinitTimer = NoTime
    /\ initPc = IF sock THEN "connected" ELSE "none"
    /\ lockHeld = TRUE
    /\ credsStored = sock
    /\ disconnectLog = <<>>

DisconnectNext ==
    \/ PostDisconnect
    \/ \E ok \in BOOLEAN : SockLogoutDone(ok)
    \/ \E ok \in BOOLEAN : ReleaseLockDone(ok)
    \/ \E ok \in BOOLEAN : WipeDone(ok)
    \/ initialize
    \/ waitForLock
    \/ makeWASocket
    \/ DisconnectTick

(***************************************************************************)
(* Graceful shutdown (SIGINT / SIGTERM handler of start)                   *)
(***************************************************************************)

\* await new Promise(resolve => setTimeout(resolve, 1000))
SHUTDOWN_PAUSE_MS == 1000

\* the grace window of WorkerPool.shutdown
GRACE_MS == 5000

Workers == 1..NumWorkers

\* one step of a worker's loop: lease a batch while the pool takes leases,
\* or settle the batch it is processing
workerLoop(w) ==
    /\ shutdownPc # "exited"
    /\ busy[w] \/ accepting
    /\ busy' = [busy EXCEPT ![w] = ~busy[w]]
    /\ UNCHANGED <<hnow, shutdownPc, shutdownWake, accepting, sessionLock, exitCode>>

\* the signal arrives: backgroundWorker.stop(), server.close(), then the
\* handler waits for one second
shutdown ==
    /\ shutdownPc = "running"
    /\ shutdownPc' = "pause"
    /\ shutdownWake' = hnow + SHUTDOWN_PAUSE_MS
    /\ UNCHANGED <<hnow, accepting, busy, sessionLock, exitCode>>

\* the second is over and await sessionManager.releaseLock() has returned;
\* whatsappClient.shutdown() starts: concurrencyController.stop(),
\* workerPool.shutdown().  A throw goes to the catch: process.exit(1)
releaseLock(ok) ==
    /\ shutdownPc = "pause"
    /\ hnow >= shutdownWake
    /\ IF ok
       THEN /\ sessionLock' = FALSE
            /\ accepting' = FALSE
            /\ shutdownPc' = "workerPool"
            /\ shutdownWake' = hnow + GRACE_MS
            /\ UNCHANGED exitCode
       ELSE /\ shutdownPc' = "exited"
            /\ exitCode' = 1
            /\ shutdownWake' = NoTime
            /\ UNCHANGED <<sessionLock, accepting>>
    /\ UNCHANGED <<hnow, busy>>

\* await this.workerPool.shutdown() has returned: every worker has settled
\* its batch or the grace window is over; the queue is cleaned up,
\* telegramClient.shutdown(), process.exit(0), or process.exit(1) on a throw
workerPoolShutdown(ok) ==
    /\ shutdownPc = "workerPool"
    /\ (\A w \in Workers : ~busy[w]) \/ hnow >= shutdownWake
    /\ shutdownPc' = "exited"
    /\ exitCode' = IF ok THEN 0 ELSE 1
    /\ shutdownWake' = NoTime
    /\ UNCHANGED <<hnow, accepting, busy, sessionLock>>

\* time passes, but not past the end of a wait
ShutdownTick ==
    /\ shutdownPc # "exited"
    /\ shutdownWake # NoTime => hnow < shutdownWake
    /\ hnow + TickMs <= MaxTime
    /\ hnow' = hnow + TickMs
    /\ UNCHANGED <<shutdownPc, shutdownWake, accepting, busy, sessionLock, exitCode>>

\* the process runs, connected, with the lock held and the pool started
ShutdownInit ==
    /\ hnow = 0
    /\ shutdownPc = "running"
    /\ shutdownWake = NoTime
    /\ accepting = TRUE
    /\ busy = [w \in Workers |-> FALSE]
    /\ sessionLock = TRUE
    /\ exitCode = NoTime

ShutdownNext ==
    \/ \E w \in Workers : workerLoop(w)
    \/ shutdown
    \/ \E ok \in BOOLEAN : releaseLock(ok)
    \/ \E ok \in BOOLEAN : workerPoolShutdown(ok)
    \/ ShutdownTick

(***************************************************************************)
(* Contact upsert of handleIncomingMessage (both transports)               *)
(***************************************************************************)

Messages == 1..NumMessages

\* msg.pushName: the first message comes without one
pushName(i) == IF i = 1 THEN "" ELSE GivenName

\* the handler is called for an inbound message; handlers of different
\* events run interleaved at their awaits
MessageArrives(i) ==
    /\ upsertPc[i] = "none"
    /\ upsertPc' = [upsertPc EXCEPT ![i] = "select"]
    /\ UNCHANGED <<cnow, contactsTable, firstCreatedAt>>

\* await db.select().from(contacts).where(eq(contacts.phone, ...))
SelectContact(i) ==
    /\ upsertPc[i] = "select"
    /\ upsertPc' = [upsertPc EXCEPT ![i] = IF contactsTable = {} THEN "insert" ELSE "update"]
    /\ UNCHANGED <<cnow, contactsTable, firstCreatedAt>>

\* await db.insert(contacts).values(...): phone is unique, a second row is
\* refused; the throw is caught by the caller (WhatsApp) or by the handler
\* (Telegram) and the message goes no further
InsertContact(i) ==
    /\ upsertPc[i] = "insert"
    /\ IF contactsTable = {}
       THEN /\ contactsTable' =
                    {[createdAt |-> cnow, lastSeenAt |-> cnow,
                      originalPushname |-> IF transport = "whatsapp" THEN pushName(i) ELSE ""]}
            /\ firstCreatedAt' = IF firstCreatedAt = NoTime THEN cnow ELSE firstCreatedAt
            /\ upsertPc' = [upsertPc EXCEPT ![i] = "taken"]
       ELSE /\ upsertPc' = [upsertPc EXCEPT ![i] = "dropped"]
            /\ UNCHANGED <<contactsTable, firstCreatedAt>>
    /\ UNCHANGED cnow

\* the row was there: WhatsApp fills in a missing pushName, Telegram sets
\* lastSeenAt; the message goes on to the buffer or to processMessage
UpdateContact(i) ==
    /\ upsertPc[i] = "update"
    /\ contactsTable' =
            {IF transport = "whatsapp"
             THEN IF row.originalPushname = "" /\ pushName(i) # ""
                  THEN [row EXCEPT !.originalPushname = pushName(i)]
                  ELSE row
             ELSE [row EXCEPT !.lastSeenAt = cnow] : row \in contactsTable}
    /\ upsertPc' = [upsertPc EXCEPT ![i] = "taken"]
    /\ UNCHANGED <<cnow, firstCreatedAt>>

ContactsTick ==
    /\ cnow + TickMs <= MaxTime
    /\ cnow' = cnow + TickMs
    /\ UNCHANGED <<contactsTable, upsertPc, firstCreatedAt>>

\* the address has not written before
ContactsInit ==
    /\ cnow = 0
    /\ contactsTable = {}
    /\ upsertPc = [i \in Messages |-> "none"]
    /\ firstCreatedAt = NoTime

ContactsNext ==
    \/ \E i \in Messages : MessageArrives(i)
    \/ \E i \in Messages : SelectContact(i)
    \/ \E i \in Messages : InsertContact(i)
    \/ \E i \in Messages : UpdateContact(i)
    \/ ContactsTick

(***************************************************************************)
(* The retry loop without the clock: _retryWithKeyRotation up to           *)
(* MAX_RETRIES attempts, and what generateReply and generateReport make of *)
(* its result                                                              *)
(***************************************************************************)

\* ERROR_MESSAGES.REPORT_ERROR_PREFIX with the contact name
REPORT_ERROR == <<"error_generating_report">>

\* _handleGenerateReplyError
handleGenerateReplyError(error) ==
    IF error = ALL_KEYS_EXHAUSTED THEN Thrown ELSE TextReply(CONNECTION_ERROR)

\* _getDefaultReportError
getDefaultReportError == TextReply(REPORT_ERROR)

\* executeWithRetry has resolved (error = "none") or rejected: the try / catch
\* of generateReply or generateReport
Settle(error) ==
    /\ loopPc' = "settled"
    /\ loopThrew' = error
    /\ apiResult' =
            IF error = "none" THEN TextReply(<<"x">>)
            ELSE IF apiMethod = "generateReply" THEN handleGenerateReplyError(error)
            ELSE getDefaultReportError

\* head of the for loop: the loop is over (throw lastError), or _getNextKey
\* throws ALL_KEYS_EXHAUSTED (not retried), or the request goes out
LoopAttempt(hasKey) ==
    /\ loopPc = "loop"
    /\ IF attempt >= MAX_RETRIES
       THEN Settle(loopError) /\ UNCHANGED loopError
       ELSE IF ~hasKey
       THEN Settle(ALL_KEYS_EXHAUSTED) /\ loopError' = ALL_KEYS_EXHAUSTED
       ELSE /\ loopPc' = "http"
            /\ UNCHANGED <<loopError, loopThrew, apiResult>>
    /\ UNCHANGED <<apiMethod, attempt, reportItem>>

\* the request comes back: return, or catch, _handleOperationError, and either
\* throw or the next iteration
LoopReturn(outcome) ==
    /\ loopPc = "http"
    /\ IF outcome = "ok"
       THEN Settle("none") /\ UNCHANGED <<loopError, attempt>>
       ELSE IF handleOperationError(outcome) = NoTime
       THEN Settle(outcome) /\ loopError' = outcome /\ UNCHANGED attempt
       ELSE /\ loopError' = outcome
            /\ attempt' = attempt + 1
            /\ loopPc' = "loop"
            /\ UNCHANGED <<loopThrew, apiResult>>
    /\ UNCHANGED <<apiMethod, reportItem>>

\* the report worker with the result of generateReport: a throw leaves the row
\* for a later lease, a report is delivered and the row marked completed
reportWorker ==
    /\ loopPc = "settled"
    /\ apiMethod = "generateReport"
    /\ loopPc' = "worked"
    /\ reportItem' = IF apiResult = Thrown THEN "pending" ELSE "completed"
    /\ UNCHANGED <<apiMethod, attempt, loopError, loopThrew, apiResult>>

RetryInit ==
    /\ attempt = 0
    /\ loopError = "none"
    /\ loopPc = "loop"
    /\ loopThrew = "none"
    /\ apiResult = TextReply(<<>>)
    /\ reportItem = "processing"

RetryNext ==
    \/ \E hasKey \in BOOLEAN : LoopAttempt(hasKey)
    \/ \E outcome \in Outcomes : LoopReturn(outcome)
    \/ reportWorker

(***************************************************************************)
(* connection.update of the WhatsApp socket: close and open                *)
(***************************************************************************)

maxReconnectAttempts == 5

\* lastDisconnect of a close: status code, tag of the error data, and whether
\* the message is the one of a decryption failure
CloseEvent(code, tag, decryption) == [code |-> code, tag |-> tag, decryption |-> decryption]
CloseEvents ==
    {CloseEvent(440, "conflict", FALSE), CloseEvent(440, "", FALSE),
     CloseEvent(405, "", FALSE), CloseEvent(401, "", FALSE),
     CloseEvent(408, "", FALSE), CloseEvent(408, "", TRUE), CloseEvent(428, "", FALSE)}

\* what is kept of a close: the event and Date.now() - this.lastConnectTime
Handled(ev, sessionDuration) ==
    [code |-> ev.code, tag |-> ev.tag, decryption |-> ev.decryption,
     sessionDuration |-> sessionDuration]
NoClose == Handled(CloseEvent(0, "", FALSE), 0)

\* Date.now() - this.lastConnectTime at a close, ms
SessionDurations == {30000, 61000}

\* (mutant) the backoff without its cap
reconnectDelayNoCap(n) == 3000 * 2 ^ (n - 1)

\* Math.min(3000 * Math.pow(2, this.reconnectAttempts - 1), 30000)
reconnectDelay(n) == IF 3000 * 2 ^ (n - 1) < 30000 THEN 3000 * 2 ^ (n - 1) ELSE 30000

\* process.exit(1) after await sessionManager.releaseLock(), after
\* await db.delete(authCredentials) when wipe is set
ReleaseAndExit(wipe) ==
    /\ credsStored' = IF wipe THEN FALSE ELSE credsStored
    /\ lockHeld' = FALSE
    /\ connPc' = "exited"
    /\ closeExit' = 1
    /\ runningPools' = 0
    /\ runningControllers' = 0
    /\ UNCHANGED <<reconnectAttempts, scheduledDelay>>

\* the flapping check: the counter as the reconnect decision sees it
afterFlappingCheck(ev, sessionDuration) ==
    IF ev.code # 401 /\ connectedBefore /\ sessionDuration > 60000
    THEN 0 ELSE reconnectAttempts

\* connection === 'close'
ConnectionClose(ev, sessionDuration) ==
    /\ connPc \in {"connecting", "connected"}
    \* this.lastConnectTime is written by an open alone: without one since the
    \* close before, the time since the last open has only grown
    /\ (connPc = "connecting" /\ lastClose # NoClose)
            => sessionDuration >= lastClose.sessionDuration
    /\ lastClose' = Handled(ev, sessionDuration)
    /\ IF (ev.code = 440 /\ ev.tag = "conflict") \/ ev.code = 405
       THEN ReleaseAndExit(FALSE)
       ELSE IF ev.code = 401 /\ ~isLoggingOut
       THEN ReleaseAndExit(TRUE)
       ELSE IF ev.decryption
       THEN ReleaseAndExit(FALSE)
       ELSE LET shouldReconnect == ev.code # 401
                attempts == afterFlappingCheck(ev, sessionDuration)
            IN IF shouldReconnect /\ attempts < maxReconnectAttempts
               THEN /\ reconnectAttempts' = attempts + 1
                    /\ scheduledDelay' = reconnectDelay(attempts + 1)
                    /\ connPc' = "waiting"
                    /\ UNCHANGED <<lockHeld, credsStored, closeExit, runningPools,
                                   runningControllers>>
               ELSE IF attempts >= maxReconnectAttempts
               THEN /\ ReleaseAndExit(FALSE)
               ELSE /\ connPc' = "closed"
                    /\ scheduledDelay' = NoTime
                    /\ UNCHANGED <<reconnectAttempts, lockHeld, credsStored, closeExit,
                                   runningPools, runningControllers>>
    /\ UNCHANGED <<connectedBefore, isLoggingOut>>

\* connection === 'open': this.lastConnectTime = Date.now(); a new WorkerPool
\* and a new ConcurrencyController are made, put in the fields of the client
\* and started
ConnectionOpened ==
    /\ connPc = "connecting"
    /\ runningPools < MaxOpens
    /\ connPc' = "connected"
    /\ connectedBefore' = TRUE
    /\ runningPools' = runningPools + 1
    /\ runningControllers' = runningControllers + 1
    /\ UNCHANGED <<reconnectAttempts, scheduledDelay, lastClose, closeExit,
                   isLoggingOut, lockHeld, credsStored>>

\* the timer of the close handler, or the one of logout(), calls initialize():
\* a new socket
ReconnectTimer ==
    /\ connPc = "waiting" \/ (connPc = "closed" /\ isLoggingOut)
    /\ connPc' = "connecting"
    /\ isLoggingOut' = FALSE
    /\ scheduledDelay' = NoTime
    /\ UNCHANGED <<reconnectAttempts, connectedBefore, lastClose, closeExit,
                   lockHeld, credsStored, runningPools, runningControllers>>

CloseInit ==
    /\ connPc = "connecting"
    /\ reconnectAttempts = 0
    /\ connectedBefore = FALSE
    /\ scheduledDelay = NoTime
    /\ lastClose = NoClose
    /\ closeExit = NoTime
    /\ runningPools = 0
    /\ runningControllers = 0

CloseNext ==
    /\ \/ \E ev \in CloseEvents, sessionDuration \in SessionDurations :
                ConnectionClose(ev, sessionDuration)
       \/ ConnectionOpened
       \/ ReconnectTimer
    /\ UNCHANGED <<dnow, routePc, sock, reinitTimer, initPc, disconnectLog>>

(***************************************************************************)
(* Owner service: isOwner and normalizeJid.  An address is a sequence of   *)
(* pieces: a run of digits, '+', '@', or the name of a domain              *)
(***************************************************************************)

\* the Owner ID that isOwner and normalizeJid carry in their code
BUILTIN_LID == "128724850720810"

\* OwnerService.ownerPhone: config.ownerPhone, digits only
ownerPhone == <<"254700000000">>

\* process.env.OWNER_LID: not set, the digits of an id, or a whole address
NoLid == <<"undefined">>
OwnerLids == {NoLid, <<"99900000000000">>, <<"99900000000000", "@", "lid">>}

JidPieces ==
    {"+", "@", "254700000000", BUILTIN_LID, "99900000000000", "7", "s.whatsapp.net", "lid"}

RECURSIVE JidsUpTo(_)
JidsUpTo(n) ==
    IF n = 0 THEN {<<>>}
    ELSE JidsUpTo(n - 1) \cup {Append(j, c) : j \in JidsUpTo(n - 1), c \in JidPieces}

\* addresses as the transport gives them: digits, with or without a leading
\* '+', then '@' and the domain
DigitRuns == {"254700000000", BUILTIN_LID, "99900000000000", "7"}
SenderJids ==
    {jid \in JidsUpTo(MaxJidLen) :
        /\ Len(jid) >= 3
        /\ jid[Len(jid) - 1] = "@" /\ jid[Len(jid)] \in {"s.whatsapp.net", "lid"}
        /\ \A i \in 1..(Len(jid) - 2) : jid[i] \in DigitRuns \/ (i = 1 /\ jid[i] = "+")
        /\ \E i \in 1..(Len(jid) - 2) : jid[i] \in DigitRuns}

\* String.prototype.replace(/[...]/g, ''): every piece of the class is removed
without(text, class) == SelectSeq(text, LAMBDA c : c \notin class)

\* String.prototype.split('@')[0]
beforeAt(text) ==
    IF \E i \in 1..Len(text) : text[i] = "@"
    THEN SubSeq(text, 1, (CHOOSE i \in 1..Len(text) :
                            text[i] = "@" /\ \A j \in 1..(i - 1) : text[j] # "@") - 1)
    ELSE text

\* String.prototype.endsWith
endsWith(text, pat) ==
    Len(text) >= Len(pat) /\ SubSeq(text, Len(text) - Len(pat) + 1, Len(text)) = pat

\* OwnerService.getOwnerJid
getOwnerJid == without(ownerPhone, {"+", " "}) \o <<"@", "s.whatsapp.net">>

\* OwnerService.isOwner
OwnerService_isOwner(jid) ==
    IF ownerPhone = <<>> THEN FALSE
    ELSE LET phone == beforeAt(jid)
             normalizedOwner == without(ownerPhone, {"+", " "})
             normalizedPhone == without(phone, {"+", " "})
         IN \/ normalizedPhone = normalizedOwner
            \/ ownerLid # NoLid /\ normalizedPhone = ownerLid
            \/ normalizedPhone = <<BUILTIN_LID>>

\* OwnerService.normalizeJid
normalizeJid(jid) ==
    LET normalized == without(jid, {"+"})
    IN IF includes(normalized, <<BUILTIN_LID>>) \/ normalized = ownerLid
       THEN getOwnerJid
       ELSE normalized

NoJid == <<"none">>

\* both functions are asked about the address
AskOwnerService ==
    /\ normalizedJid = NoJid
    /\ normalizedJid' = normalizeJid(remoteJid)
    /\ ownerAccepted' = OwnerService_isOwner(remoteJid)
    /\ UNCHANGED <<ownerLid, remoteJid, decryptionFailures, undecryptableRun, recoveries,
                   contactWrites, contactRows, messageBuffer, lastMsg>>

(***************************************************************************)
(* Intake of the WhatsApp client: the messages.upsert handler and the      *)
(* guard, the contact upsert and the buffering of handleIncomingMessage    *)
(***************************************************************************)

MAX_DECRYPT_FAILURES == 3

PersonalJid == <<"7", "@", "s.whatsapp.net">>
OwnerLidJid == <<BUILTIN_LID, "@", "lid">>
GroupJid == <<"7", "@", "g.us">>
StatusJid == <<"status", "@", "broadcast">>
NewsletterJid == <<"7", "@", "newsletter">>
IntakeJids == {PersonalJid, OwnerLidJid, GroupJid, StatusJid, NewsletterJid}

\* an element of messages of a notify event: msg.key.remoteJid, msg.key.fromMe,
\* msg.message ("text": with a text, "media": without one, "none": missing,
\* undecryptable), and whether msg.pushName is there
InboundMsg(jid, fromMe, body, named) ==
    [remoteJid |-> jid, fromMe |-> fromMe, body |-> body, pushName |-> named]
InboundMsgs ==
    {InboundMsg(jid, FALSE, body, TRUE) : jid \in IntakeJids, body \in {"text", "media", "none"}}
        \cup {InboundMsg(jid, FALSE, "text", FALSE) : jid \in IntakeJids}
        \cup {InboundMsg(jid, TRUE, "text", TRUE) : jid \in IntakeJids}

\* what is kept of the event handled last, with its number
HandledMsg(msg, seq) ==
    [remoteJid |-> msg.remoteJid, fromMe |-> msg.fromMe, body |-> msg.body,
     pushName |-> msg.pushName, seq |-> seq]
NoMsg == HandledMsg(InboundMsg(NoJid, FALSE, "none", FALSE), 0)

\* phones a contacts row can have
Phones == IntakeJids \cup {getOwnerJid}

\* (mutant) the guard with the test of the text alone
passesLocalGuardTextOnly(jid, body) == body = "text"

\* the returns of handleIncomingMessage before the contact is looked up
passesLocalGuard(jid, body) ==
    /\ body = "text"
    /\ jid # StatusJid
    /\ ~endsWith(jid, <<"@", "g.us">>)
    /\ ~includes(jid, <<"@", "broadcast">>)
    /\ ~includes(jid, <<"@", "newsletter">>)
    /\ endsWith(jid, <<"@", "s.whatsapp.net">>) \/ endsWith(jid, <<"@", "lid">>)

\* the branch of an undecryptable message
countDecryptionFailure(jid) ==
    LET failureCount == decryptionFailures[jid] + 1
    IN IF failureCount >= MAX_DECRYPT_FAILURES
       THEN /\ recoveries' = Append(recoveries, jid)
            /\ decryptionFailures' = [decryptionFailures EXCEPT ![jid] = 0]
            /\ undecryptableRun' = [undecryptableRun EXCEPT ![jid] = 0]
       ELSE /\ decryptionFailures' = [decryptionFailures EXCEPT ![jid] = failureCount]
            /\ undecryptableRun' = [undecryptableRun EXCEPT ![jid] = @ + 1]
            /\ UNCHANGED recoveries

\* handleIncomingMessage after its guard: the contact is made, or gets the
\* pushName it lacks, and the text goes to the buffer
takeIn(jid, named) ==
    /\ IF contactRows[jid] = "none"
       THEN /\ contactRows' = [contactRows EXCEPT ![jid] = IF named THEN "named" ELSE "nameless"]
            /\ contactWrites' = Append(contactWrites, jid)
       ELSE IF contactRows[jid] = "nameless" /\ named
       THEN /\ contactRows' = [contactRows EXCEPT ![jid] = "named"]
            /\ contactWrites' = Append(contactWrites, jid)
       ELSE UNCHANGED <<contactRows, contactWrites>>
    /\ messageBuffer' = Append(messageBuffer, jid)

\* one turn of the loop of the messages.upsert handler
MessagesUpsert(msg) ==
    /\ lastMsg.seq < MaxEvents
    /\ lastMsg' = HandledMsg(msg, lastMsg.seq + 1)
    /\ IF msg.fromMe
       THEN UNCHANGED <<decryptionFailures, undecryptableRun, recoveries,
                        contactWrites, contactRows, messageBuffer>>
       ELSE IF msg.body = "none"
       THEN /\ countDecryptionFailure(msg.remoteJid)
            /\ UNCHANGED <<contactWrites, contactRows, messageBuffer>>
       ELSE /\ undecryptableRun' = [undecryptableRun EXCEPT ![msg.remoteJid] = 0]
            /\ UNCHANGED <<decryptionFailures, recoveries>>
            /\ IF passesLocalGuard(normalizeJid(msg.remoteJid), msg.body)
               THEN takeIn(normalizeJid(msg.remoteJid), msg.pushName)
               ELSE UNCHANGED <<contactWrites, contactRows, messageBuffer>>
    /\ UNCHANGED <<ownerLid, remoteJid, normalizedJid, ownerAccepted>>

\* messaging-history.set with isLatest: decryptionFailures.clear()
HistorySynced ==
    /\ \E jid \in IntakeJids : decryptionFailures[jid] > 0
    /\ decryptionFailures' = [jid \in IntakeJids |-> 0]
    /\ undecryptableRun' = [jid \in IntakeJids |-> 0]
    /\ UNCHANGED <<ownerLid, remoteJid, normalizedJid, ownerAccepted,
                   recoveries, contactWrites, contactRows, messageBuffer, lastMsg>>

IntakeInit ==
    /\ normalizedJid = NoJid
    /\ ownerAccepted = FALSE
    /\ decryptionFailures = [jid \in IntakeJids |-> 0]
    /\ undecryptableRun = [jid \in IntakeJids |-> 0]
    /\ recoveries = <<>>
    /\ contactWrites = <<>>
    /\ contactRows = [phone \in Phones |-> "none"]
    /\ messageBuffer = <<>>
    /\ lastMsg = NoMsg

IntakeNext ==
    \/ \E msg \in InboundMsgs : MessagesUpsert(msg)
    \/ HistorySynced

\* nothing was stored so far
NoCredentials == lastCompleted = [id \in AuthIds |-> JsNull]

\* no tool is asked for
NoToolCall ==
    /\ functionCall = "get_current_time"
    /\ serviceOutcome = "data"
    /\ extractedName = ""
    /\ contactRow = ContactRow("", FALSE, "", 0)

Init ==
    /\ GatewayInit /\ SessionInit /\ ReplyInit /\ StripInit /\ ToolsInit /\ NoToolCall
    /\ NoCredentials /\ AuthInit
    /\ sock = TRUE /\ DisconnectInit
    /\ ShutdownInit /\ ContactsInit /\ RetryInit /\ apiMethod = "generateReply"
    /\ CloseInit
    /\ CredsInit /\ IntakeInit /\ ownerLid = NoLid /\ remoteJid = <<>>
    /\ peer \in {WaContact, TgContact}
    /\ userText = "hi"
    /\ modelOutput = <<>>
    /\ transport = "whatsapp"

\* the runs of the reply pipeline: any contact, any of the texts
InitReply ==
    /\ GatewayInit /\ SessionInit /\ ReplyInit /\ StripInit /\ ToolsInit /\ NoToolCall
    /\ NoCredentials /\ AuthInit
    /\ sock = TRUE /\ DisconnectInit
    /\ ShutdownInit /\ ContactsInit /\ RetryInit /\ apiMethod = "generateReply"
    /\ CloseInit
    /\ CredsInit /\ IntakeInit /\ ownerLid = NoLid /\ remoteJid = <<>>
    /\ peer \in Contacts
    /\ userText \in UserTexts
    /\ modelOutput = <<>>
    /\ transport = "whatsapp"

\* sendResponseAndLog on its own: any model output, either client
InitStrip ==
    /\ GatewayInit /\ SessionInit /\ ReplyInit /\ StripInit /\ ToolsInit /\ NoToolCall
    /\ NoCredentials /\ AuthInit
    /\ sock = TRUE /\ DisconnectInit
    /\ ShutdownInit /\ ContactsInit /\ RetryInit /\ apiMethod = "generateReply"
    /\ CloseInit
    /\ CredsInit /\ IntakeInit /\ ownerLid = NoLid /\ remoteJid = <<>>
    /\ peer = WaContact
    /\ userText = "hi"
    /\ modelOutput \in TextsUpTo(MaxTextLen)
    /\ transport \in Transports

\* the tool step: any sender, any tool name, any outcome of the service behind
\* it, a contact row verified or not, with or without a pushName
InitTools ==
    /\ GatewayInit /\ SessionInit /\ ReplyInit /\ StripInit /\ ToolsInit
    /\ NoCredentials /\ AuthInit
    /\ sock = TRUE /\ DisconnectInit
    /\ ShutdownInit /\ ContactsInit /\ RetryInit /\ apiMethod = "generateReply"
    /\ CloseInit
    /\ CredsInit /\ IntakeInit /\ ownerLid = NoLid /\ remoteJid = <<>>
    /\ peer \in Contacts
    /\ userText = "hi"
    /\ modelOutput = <<>>
    /\ transport = "whatsapp"
    /\ functionCall \in KnownTools \cup {"no_such_tool"}
    /\ serviceOutcome \in {"data", "empty", "throws"}
    /\ extractedName = extractNameFromMessage(userText)
    /\ contactRow \in {ContactRow("", FALSE, pushed, 0) : pushed \in {"", GivenName}}
                        \cup {ContactRow(GivenName, TRUE, pushed, 1) : pushed \in {"", GivenName}}

SpecGateway == Init /\ [][GatewayNext /\ UNCHANGED <<svars, rvars, tvars, xvars, avars, dvars, hvars, cvars, lvars, kvars, ivars, uvars>>]_vars

\* the gateway with the scheduling of the process: continuations that are
\* ready and timers that are due run, the clock goes on; whether and when a
\* request comes back is up to the remote service
SpecGatewayFair ==
    /\ SpecGateway
    /\ \A o \in Ops :
            /\ WF_gvars(BodyStart(o))
            /\ WF_gvars(retryWithKeyRotation(o))
            /\ WF_gvars(DelayDone(o))
            /\ WF_gvars(SpacingDone(o))
    /\ WF_gvars(GatewayTick)

SpecSession == Init /\ [][SessionNext /\ UNCHANGED <<gvars, rvars, tvars, xvars, avars, dvars, hvars, cvars, lvars, kvars, ivars, uvars>>]_vars

SpecReply == InitReply /\ [][ReplyNext /\ UNCHANGED <<gvars, svars, tvars, xvars, avars, dvars, hvars, cvars, lvars, kvars, ivars, uvars>>]_vars

SpecStrip == InitStrip /\ [][StripNext /\ UNCHANGED <<gvars, svars, rvars, xvars, avars, dvars, hvars, cvars, lvars, kvars, ivars, uvars>>]_vars

\* the credential store: creds stored by an earlier run of the process, or
\* nothing stored yet
InitAuth ==
    /\ GatewayInit /\ SessionInit /\ ReplyInit /\ StripInit /\ ToolsInit /\ NoToolCall
    /\ \E stored \in AuthData \cup {JsNull} :
            lastCompleted = [id \in AuthIds |-> IF id = "creds" THEN stored ELSE JsNull]
    /\ AuthInit
    /\ sock = TRUE /\ DisconnectInit
    /\ ShutdownInit /\ ContactsInit /\ RetryInit /\ apiMethod = "generateReply"
    /\ CloseInit
    /\ CredsInit /\ IntakeInit /\ ownerLid = NoLid /\ remoteJid = <<>>
    /\ peer = WaContact
    /\ userText = "hi"
    /\ modelOutput = <<>>
    /\ transport = "whatsapp"

SpecAuth == InitAuth /\ [][AuthNext /\ UNCHANGED <<gvars, svars, rvars, tvars, xvars, dvars, hvars, cvars, lvars, kvars, ivars, uvars>>]_vars

\* a disconnect request to a process with or without a socket
InitDisconnect ==
    /\ GatewayInit /\ SessionInit /\ ReplyInit /\ StripInit /\ ToolsInit /\ NoToolCall
    /\ NoCredentials /\ AuthInit
    /\ sock \in BOOLEAN /\ DisconnectInit
    /\ ShutdownInit /\ ContactsInit /\ RetryInit /\ apiMethod = "generateReply"
    /\ CloseInit
    /\ CredsInit /\ IntakeInit /\ ownerLid = NoLid /\ remoteJid = <<>>
    /\ peer = WaContact
    /\ userText = "hi"
    /\ modelOutput = <<>>
    /\ transport = "whatsapp"

SpecDisconnect ==
    InitDisconnect
        /\ [][DisconnectNext /\ UNCHANGED <<gvars, svars, rvars, tvars, xvars, avars, hvars, cvars, lvars, kvars, ivars, uvars>>]_vars

SpecShutdown ==
    Init /\ [][ShutdownNext /\ UNCHANGED <<gvars, svars, rvars, tvars, xvars, avars, dvars, cvars, lvars, kvars, ivars, uvars>>]_vars

\* two messages of a new address, on either transport
InitContacts ==
    /\ GatewayInit /\ SessionInit /\ ReplyInit /\ StripInit /\ ToolsInit /\ NoToolCall
    /\ NoCredentials /\ AuthInit
    /\ sock = TRUE /\ DisconnectInit
    /\ ShutdownInit /\ ContactsInit /\ RetryInit /\ apiMethod = "generateReply"
    /\ CloseInit
    /\ CredsInit /\ IntakeInit /\ ownerLid = NoLid /\ remoteJid = <<>>
    /\ peer = WaContact
    /\ userText = "hi"
    /\ modelOutput = <<>>
    /\ transport \in Transports

SpecContacts ==
    InitContacts
        /\ [][ContactsNext /\ UNCHANGED <<gvars, svars, rvars, tvars, xvars, avars, dvars, hvars, lvars, kvars, ivars, uvars>>]_vars

\* either method of the gateway that goes through the retry loop
InitRetry ==
    /\ GatewayInit /\ SessionInit /\ ReplyInit /\ StripInit /\ ToolsInit /\ NoToolCall
    /\ NoCredentials /\ AuthInit
    /\ sock = TRUE /\ DisconnectInit
    /\ ShutdownInit /\ ContactsInit /\ RetryInit /\ CloseInit
    /\ CredsInit /\ IntakeInit /\ ownerLid = NoLid /\ remoteJid = <<>>
    /\ apiMethod \in {"generateReply", "generateReport"}
    /\ peer = WaContact
    /\ userText = "hi"
    /\ modelOutput = <<>>
    /\ transport = "whatsapp"

SpecRetry ==
    InitRetry
        /\ [][RetryNext /\ UNCHANGED <<gvars, svars, rvars, tvars, xvars, avars, dvars, hvars, cvars, kvars, ivars, uvars>>]_vars

\* the socket was just made by initialize(), with stored credentials and the
\* lock held; a logout is under way or not
InitClose ==
    /\ GatewayInit /\ SessionInit /\ ReplyInit /\ StripInit /\ ToolsInit /\ NoToolCall
    /\ NoCredentials /\ AuthInit
    /\ sock = TRUE
    /\ dnow = 0 /\ routePc = "idle" /\ reinitTimer = NoTime /\ initPc = "connected"
    /\ lockHeld = TRUE /\ credsStored = TRUE /\ disconnectLog = <<>>
    /\ isLoggingOut \in BOOLEAN
    /\ ShutdownInit /\ ContactsInit /\ RetryInit /\ apiMethod = "generateReply"
    /\ CloseInit
    /\ CredsInit /\ IntakeInit /\ ownerLid = NoLid /\ remoteJid = <<>>
    /\ peer = WaContact
    /\ userText = "hi"
    /\ modelOutput = <<>>
    /\ transport = "whatsapp"

SpecClose ==
    InitClose
        /\ [][CloseNext /\ UNCHANGED <<gvars, svars, rvars, tvars, xvars, avars, hvars, cvars, lvars, ivars, uvars>>]_vars

\* the owner service on its own: any sender address, any setting of OWNER_LID
InitOwner ==
    /\ GatewayInit /\ SessionInit /\ ReplyInit /\ StripInit /\ ToolsInit /\ NoToolCall
    /\ NoCredentials /\ AuthInit
    /\ sock = TRUE /\ DisconnectInit
    /\ ShutdownInit /\ ContactsInit /\ RetryInit /\ apiMethod = "generateReply"
    /\ CloseInit
    /\ ownerLid \in OwnerLids
    /\ CredsInit /\ IntakeInit
    /\ remoteJid \in SenderJids
    /\ peer = WaContact
    /\ userText = "hi"
    /\ modelOutput = <<>>
    /\ transport = "whatsapp"

SpecOwner ==
    InitOwner
        /\ [][AskOwnerService /\ UNCHANGED <<gvars, svars, rvars, tvars, xvars, avars, dvars, hvars, cvars, lvars, kvars, uvars>>]_vars

SpecIntake ==
    Init /\ [][IntakeNext /\ UNCHANGED <<gvars, svars, rvars, tvars, xvars, avars, dvars, hvars, cvars, lvars, kvars, uvars>>]_vars

\* the auth state is made over credentials stored by an earlier run of the
\* process, or over nothing
SpecCreds ==
    InitAuth
        /\ [][CredsNext /\ UNCHANGED <<gvars, svars, rvars, tvars, xvars, dvars, hvars, cvars, lvars, kvars, ivars>>]_vars

SpecTools == InitTools /\ [][ToolsNext /\ UNCHANGED <<gvars, svars, rvars, tvars, avars, dvars, hvars, cvars, lvars, kvars, ivars, uvars>>]_vars

(***************************************************************************)
(* Claims on the LLM gateway                                               *)
(***************************************************************************)

\* C1: at most one gateway operation is inside its body (key rotation loop,
\* HTTP request, pacing wait) at any moment, and the bodies start in the
\* order in which the operations were submitted.
C1_SerializedFifo ==
    /\ Cardinality({o \in Ops : InBody(o)}) <= 1
    /\ \A i \in 1..Len(startOrder) : startOrder[i] = i

\* C1 witness: a second caller has submitted its operation while the first
\* one has a request in flight, and waits
C1_Witness == opState[1] = "http" /\ opState[2] = "queued"

\* C2 (as claimed): the body of every operation starts at least
\* MIN_REQUEST_SPACING_MS after the operation before it in the queue completed
\* (its retry loop returned or threw).
C2_SpacingAfterCompletion ==
    \A o \in Ops :
        (opStart[o] # NoTime /\ opPrev[o] # NoOp)
            => opStart[o] - opLoopEnd[opPrev[o]] >= MIN_REQUEST_SPACING_MS

\* C3 (as claimed): two consecutive HTTP requests start at least
\* MIN_REQUEST_SPACING_MS apart, retries inside one operation included.
C3_RequestSpacing == reqGap = NoTime \/ reqGap >= MIN_REQUEST_SPACING_MS

\* the request of operation o comes back with a 429 in this step
RateLimited(o) ==
    opState[o] = "http" /\ opState'[o] # "http" /\ lastError'[o] = "e429"

\* operation o starts the attempt that follows a 429 in this step
NextAttemptAfter429(o) ==
    opState[o] = "attempt" /\ lastError[o] = "e429" /\ opState'[o] = "http"

\* what C18 says of the cooldown and of the wait: the key of the failed
\* request is not available before the suggested delay (60 s without one) has
\* passed, and the operation sleeps RETRY_DELAY_MS before its next attempt
CooldownAndWait(o) ==
    /\ RateLimited(o)
        => /\ \E r \in RetryInfos :
                keyAvail'[opKey[o]]
                    = gnow + (IF r = 0 THEN DEFAULT_RETRY_SECONDS ELSE r) * 1000
           /\ \A k \in Keys \ {opKey[o]} : keyAvail'[k] = keyAvail[k]
           /\ opState'[o] = "delay"
           /\ opWake'[o] = gnow + RETRY_DELAY_MS
    /\ (opState[o] = "delay" /\ lastError[o] = "e429" /\ opState'[o] # "delay")
        => gnow >= opWake[o]

C23_OverloadKeepsKey ==
    [][\A o \in Ops :
        /\ (opState[o] = "http" /\ opState'[o] # "http" /\ lastError'[o] = "e503")
            => /\ keyAvail' = keyAvail
               /\ opState'[o] = "delay"
               /\ opWake'[o] = gnow + 2 * MIN_REQUEST_SPACING_MS
        /\ (opState[o] = "delay" /\ lastError[o] = "e503" /\ opState'[o] # "delay")
            => gnow >= opWake[o]
        /\ (opState[o] = "attempt" /\ lastError[o] = "e503" /\ opState'[o] = "http")
            => opKey'[o] = currentKey]_vars

\* C24: when an attempt fails with an invalid-key error the operation goes on
\* to its next attempt at once, and no later attempt of any operation uses a
\* key that has failed with an invalid-key error.
C24_InvalidKeyRetired ==
    [][\A o \in Ops :
        /\ (opState[o] = "http" /\ opState'[o] # "http" /\ lastError'[o] = "invalid")
            => opState'[o] = "attempt"
        /\ (opState[o] = "attempt" /\ opState'[o] = "http")
            => opKey'[o] \notin sawInvalid]_vars

\* C26: a request that is in flight is ended, by its answer or by a timeout,
\* so every operation that was submitted settles, whether its own request or
\* the request of an operation before it in the queue gets no answer.
C26_EveryOperationSettles ==
    \A o \in Ops :
        (opState[o] \in {"queued", "http"}) ~> (opState[o] \in {"resolved", "rejected"})

\* operation o waits in the queue behind an operation that has failed
BehindFailed(o) ==
    /\ opState[o] = "queued"
    /\ opPrev[o] # NoOp
    /\ opState[opPrev[o]] = "rejected"

ReportsOf(i) == {j \in 1..Len(reportQueue) : reportQueue[j].conversationId = i}

\* C5 (as claimed): at most one conversations row per contact has
\* status = active, whatever the interleaving of touchConversation and
\* endConversation calls.
C5_OneActivePerContact == \A c \in Contacts : Cardinality(ActiveRows(c)) <= 1

\* C6 (as claimed): a session that ended has exactly one report_queue item,
\* never two, also when two endConversation calls for the contact overlap.
C6_ExactlyOneReport ==
    \A i \in 1..Len(conversations) :
        /\ Cardinality(ReportsOf(i)) <= 1
        /\ (/\ conversations[i].status = "completed"
            /\ \A k \in Calls : InFlight(k) => callInfo[k].conv # i)
                => Cardinality(ReportsOf(i)) = 1

\* C7 (as claimed): a session is completed only by a reply with the closing
\* tag, or by an endConversation call made at least CONVERSATION_TIMEOUT_MS
\* after the contact's most recent touchConversation.
C7_CompletedOnlyAfterSilence ==
    \A i \in 1..Len(conversations) :
        conversations[i].status = "completed"
            => \/ conversations[i].by = "sentinel"
               \/ conversations[i].endedAt - conversations[i].touchedAt
                        >= CONVERSATION_TIMEOUT_MS

\* C8: a reply that holds the closing tag calls endConversation (not
\* touchConversation), and once that call has updated the active row it
\* selected, the row is completed with endedAt equal to the time the reply was
\* sent: it does not wait for the silence timer.  Both transports.
C8_SentinelEndsSession ==
    \A k \in Calls :
        (callState[k] # "free" /\ includes(callInfo[k].reply, END_SESSION))
            => /\ callInfo[k].trigger = "sentinel"
               /\ (callState[k] \in {"end_enqueue", "done"} /\ callInfo[k].conv # NoConv)
                    => /\ conversations[callInfo[k].conv].status = "completed"
                       /\ conversations[callInfo[k].conv].endedAt = callInfo[k].at

\* C8 witness: on the WhatsApp path, a session touched half a timeout ago has
\* been completed by a reply with the closing tag
C8_Witness ==
    \E k \in Calls :
        /\ callState[k] = "done"
        /\ callInfo[k].trigger = "sentinel"
        /\ callInfo[k].contact = WaContact
        /\ callInfo[k].conv # NoConv
        /\ conversations[callInfo[k].conv].status = "completed"
        /\ conversations[callInfo[k].conv].touchedAt # NoTime
        /\ conversations[callInfo[k].conv].endedAt
                < conversations[callInfo[k].conv].touchedAt + CONVERSATION_TIMEOUT_MS

(***************************************************************************)
(* Claims about the reply pipeline                                         *)
(***************************************************************************)

\* C4 (as claimed): processMessageBatch never runs for the same contact in two
\* overlapping invocations; a second batch of the contact (buffer flush, worker
\* lease, rate-limit replay) does not start before the first has finished.
C4_NoOverlappingBatches ==
    IsWhatsApp(peer) => Cardinality({b \in Invs : Running(b)}) <= 1

\* C9 (as claimed): the text sent to the contact and the text logged with role
\* 'agent' never contain '#END_SESSION#', whatever the number and position of
\* its occurrences in the model output.
C9_NoSentinelDelivered ==
    /\ stripPc \in {"sent", "logged"} => ~includes(sentText, END_SESSION)
    /\ stripPc = "logged" => ~includes(loggedText, END_SESSION)

\* C10 (as claimed): on both transports an invocation that is answered with a
\* tool call MAX_TOOL_DEPTH + 1 times in a row does not return before it has sent
\* the fallback reply to the contact and logged it as an agent message.
C10_FallbackAfterToolDepth ==
    [][\A b \in Invs :
          (/\ inv[b].pc = "tool"
           /\ inv[b].toolCalls = MAX_TOOL_DEPTH
           /\ inv'[b].pc = "done"
           /\ inv'[b].geminiResponse.type = "tool_call"
           /\ inv'[b].error = "")
          => /\ [by |-> b, text |-> FAILOVER_MESSAGE] \in outbox'
             /\ \E row \in messageLogs' :
                   row.by = b /\ row.role = "agent" /\ row.content = FAILOVER_MESSAGE
      ]_vars

\* the batch that processMessageBatch is called with in a step that starts an
\* invocation of the WhatsApp client
StartedBatch ==
    IF buffer' # buffer THEN buffer
    ELSE IF mqRows' # mqRows THEN Head(mqRows).messages
    ELSE Head(rlQueue)

\* C11: in the WhatsApp pipeline a batch of a contact other than the owner whose
\* text matches the acknowledgement pattern ends at once, with no generateReply
\* call, no reply and no new message_logs row; the same text from the owner is
\* processed, with one generateReply call when the model answers with text.
C11_AckShortCircuit ==
    [][\A b \in Invs :
          /\ (/\ IsWhatsApp(peer) /\ ~isOwner(peer)
              /\ numInv' = b /\ numInv = b - 1
              /\ ignoredPatterns(StartedBatch))
             => /\ inv'[b].pc = "done"
                /\ inv'[b].geminiResponse = Undefined
                /\ outbox' = outbox
                /\ messageLogs' = messageLogs
          /\ (/\ isOwner(peer)
              /\ numInv' = b /\ numInv = b - 1
              /\ ignoredPatterns(StartedBatch))
             => inv'[b].pc = "begin"
          /\ (/\ isOwner(peer)
              /\ inv[b].pc = "generate"
              /\ inv'[b].geminiResponse.type = "text")
             => inv[b].llmCalls = 0 /\ inv'[b].pc = "done"
      ]_vars

\* the contact's only batch was "ok" and it has ended without a trace
C11_Witness ==
    /\ peer = WaContact /\ userText = "ok"
    /\ numInv = 1 /\ inv[1].pc = "done"
    /\ buffer = <<>> /\ mqRows = <<>> /\ rlQueue = <<>>
    /\ messageLogs = {} /\ outbox = {} /\ contactExists

\* generateReply threw in this step of invocation b of the WhatsApp client, on
\* the first call or on a call of the tool loop
GenerateThrew(b) ==
    /\ IsWhatsApp(peer)
    /\ inv[b].pc \in {"generate", "tool"}
    /\ inv'[b].pc = "done"
    /\ inv'[b].error = ALL_KEYS_EXHAUSTED

\* C12 (as claimed): when generateReply throws, on the first call or inside the
\* tool loop, the batch is queued again for later processing (message_queue at
\* its priority, or the rate-limit queue), and the owner is also sent a note.
C12_RequeuedOnThrow ==
    [][\A b \in Invs :
          GenerateThrew(b) =>
             /\ \/ mqRows' = mqEnqueue(inv[b].messages,
                                       IF isOwner(peer) THEN "owner" ELSE "normal")
                \/ rlQueue' = Append(rlQueue, inv[b].messages)
             /\ isOwner(peer) => \E row \in outbox' \ outbox : row.by = b
      ]_vars

\* texts that tell the contact of a failure of the reply generation
ErrorTexts == {CONNECTION_ERROR, TELEGRAM_TROUBLE, AI_ERROR_TOOL_NOTE}

\* C13 (as claimed): a contact other than the owner is never sent a text about
\* a failed reply generation; only the owner is.
C13_SilentForNonOwner ==
    ~isOwner(peer) => \A row \in outbox : row.text \notin ErrorTexts

\* the number of inbound texts of the batch of invocation b (its user row holds
\* the texts of the batch)
TextsOf(b) ==
    LET row == CHOOSE u \in messageLogs : u.by = b /\ u.role = "user"
    IN Len(row.content)

\* C14 (as claimed): the number of role=user rows between two successive
\* role=agent rows of the contact equals the number of inbound texts of the
\* batch that produced the later of the two agent rows.
C14_UserRowsPerReply ==
    \A later \in AgentRows :
        later.after > 0
        => Cardinality({u \in messageLogs : u.role = "user" /\ u.after = later.after})
               = TextsOf(later.by)

\* an inbound text of the contact is accepted in this step: added to the
\* debounce buffer (WhatsApp) or handed to processMessage (Telegram)
AcceptedNow ==
    \/ Len(buffer') = Len(buffer) + 1
    \/ peer = TgContact /\ numInv' = numInv + 1

\* C36: every accepted inbound text and every reply written to message_logs
\* comes with a call of the session tracker for the contact, so that the
\* session is opened at intake.
C36_TouchedAtIntake ==
    [][/\ AcceptedNow => sessionCalls' # sessionCalls
       /\ \A row \in messageLogs' \ messageLogs :
              row.role = "agent" => \E c \in sessionCalls' \ sessionCalls : c.by = row.by]_vars

\* C39: an invocation of processMessageBatch sends its contact at most one
\* text: the reply of the model, the fallback after the tool loop, or the error
\* note for the owner.
C39_OneTextPerBatch ==
    \A b \in Invs :
        inv[b].source # "telegram" => Cardinality({m \in outbox : m.by = b}) <= 1

(***************************************************************************)
(* Claims on the tool executor                                             *)
(***************************************************************************)

\* C15 (as claimed): when the sender of the batch is not the owner, executing
\* an owner-only tool gives an error and never the data of the tool.
C15_OwnerToolsGated ==
    (toolPc = "fed" /\ ~isOwner(peer) /\ functionCall \in OwnerOnlyTools)
        => /\ toolResult.field = "error"
           /\ toolResult.value # ownerTools("data").value

\* C16 (as claimed): for every tool name, known or not, and every outcome of
\* the service behind it, what executeLocalTool returns is an object with a
\* string field result or a string field error, and for a name that is not
\* known the field is error.
C16_ResultOrError ==
    (toolPc = "fed" /\ ~toolReturn.threw)
        => /\ toolReturn.value.type = "object"
           /\ toolReturn.value.field \in {"result", "error"}
           /\ functionCall \notin KnownTools => toolReturn.value.field = "error"

\* C17 (as claimed): after update_contact_info was executed for a contact, the
\* stored row of the contact has the confirmed name and is verified.
C17_ContactInfoStored ==
    (toolPc = "fed" /\ functionCall = "update_contact_info" /\ ~toolReturn.threw)
        => /\ contactRow.isVerified
           /\ contactRow.confirmedName = GivenName

\* C35: for a contact that is verified, the batch leaves the row as it is
\* (confirmedName, isVerified, no further marker in the summary) and the call
\* of the model gets no identity-discovery prompt.
C35_VerifiedContactUntouched ==
    [][contactRow.isVerified
        => /\ contactRow' = contactRow
           /\ systemPrompt' = "undefined"]_vars

\* C35 witness: the identity step and the tool step of a batch ran for a
\* verified contact, on either transport
C35_Witness ==
    /\ toolPc = "fed"
    /\ ~isOwner(peer)
    /\ contactRow = ContactRow(GivenName, TRUE, "", 1)
    /\ systemPrompt = "undefined"

(***************************************************************************)
(* Claims on the credential store                                          *)
(***************************************************************************)

\* the read k of key id returns in this step
ReadReturns(k, id) ==
    /\ authOps[k].kind = "read" /\ authOps[k].pc = "select" /\ authOps[k].id = id
    /\ authOps'[k].pc = "done"

Progress(op) ==
    IF op.pc = "done" THEN 3 * (WRITE_MAX_RETRIES + 1)
    ELSE 3 * op.attempt + (CASE op.pc = "select" -> 0 [] op.pc = "apply" -> 1 [] OTHER -> 2)

\* C28: a write makes at most 3 attempts and every step takes it closer to its
\* end; after an attempt that succeeded it only returns; an attempt that
\* failed has changed nothing in the table, and with the third failed attempt
\* the call returns to its caller like any other.
C28_WriteRetriesBounded ==
    [][\A k \in AuthOps :
        LET op == authOps[k]
            after == authOps'[k]
        IN op.kind = "write" =>
            /\ after.attempt <= WRITE_MAX_RETRIES
            /\ after # op => Progress(after) > Progress(op)
            /\ op.pc = "return" => after.pc \in {"return", "done"}
            /\ (after # op /\ op.pc \in {"select", "apply"} /\ after.pc \in {"select", "done"})
                => /\ authCredentials' = authCredentials
                   /\ after.pc = "done" <=> op.attempt = WRITE_MAX_RETRIES]_vars

\* C28 witness: the only call so far was a write of creds over a stored value;
\* it gave up after its third attempt and the stored value is the old one
C28_Witness ==
    /\ numAuthOps = 1
    /\ authOps[1].kind = "write" /\ authOps[1].pc = "done" /\ authOps[1].failed
    /\ gaveUp["creds"]
    /\ lastCompleted["creds"] # JsNull
    /\ authCredentials["creds"] = replacer(lastCompleted["creds"])

\* C40: when the read of 'creds' that makes the auth state ended on a database
\* error, no later saveCreds changes the credentials that are stored.
C40_StoredCredsKept ==
    [][(credsReadFailed /\ authCredentials["creds"] # NoRow)
        => authCredentials'["creds"] = authCredentials["creds"]]_vars

(***************************************************************************)
(* Claims on the disconnect route                                          *)
(***************************************************************************)

\* where in disconnectLog the event is, 0 if it is not there
At(event) ==
    IF \E i \in DOMAIN disconnectLog : disconnectLog[i] = event
    THEN CHOOSE i \in DOMAIN disconnectLog : disconnectLog[i] = event
    ELSE 0

\* C20 (as claimed): POST /api/disconnect does the logout, then releases the
\* session lock, then wipes the credentials, and has sent the success response
\* before a new initialize() starts.
C20_DisconnectBeforeReconnect ==
    At("failure") = 0
        => /\ At("success") > 0
                => /\ 0 < At("logout")
                   /\ At("logout") < At("releaseLock")
                   /\ At("releaseLock") < At("wipe")
                   /\ At("wipe") < At("success")
           /\ At("initialize") > 0
                => (At("success") > 0 /\ At("success") < At("initialize"))

(***************************************************************************)
(* Claims on the graceful shutdown                                         *)
(***************************************************************************)

\* C21: on a shutdown signal the session lock is released only when the
\* worker pool has stopped taking leases and no worker of the process is
\* processing a batch, and the process exits with code 0 only after the
\* lock was released.
C21_LockReleasedAfterWorkers ==
    [][/\ (sessionLock /\ ~sessionLock') => (~accepting /\ \A w \in Workers : ~busy[w])
       /\ (shutdownPc' = "exited" /\ exitCode' = 0) => ~sessionLock']_vars

(***************************************************************************)
(* Claims on the contact upsert                                            *)
(***************************************************************************)

\* C22: whatever the interleaving of the handlers of two messages of one
\* address, contacts holds at most one row of the address, its createdAt is
\* the one of the first insert, and no message is dropped by the upsert.
C22_UpsertOnce ==
    /\ Cardinality(contactsTable) <= 1
    /\ \A row \in contactsTable : row.createdAt = firstCreatedAt
    /\ \A i \in Messages : upsertPc[i] # "dropped"

(***************************************************************************)
(* Claims on the retry loop and on the methods that use it                 *)
(***************************************************************************)

\* C25: the loop makes at most MAX_RETRIES attempts; when all of them have
\* failed with errors that are retried, the operation fails with
\* ALL_KEYS_EXHAUSTED and generateReply throws it instead of returning a text.
C25_ExhaustedAfterMaxRetries ==
    /\ attempt <= MAX_RETRIES
    /\ (attempt = MAX_RETRIES /\ loopPc \in {"settled", "worked"})
        => /\ loopThrew = ALL_KEYS_EXHAUSTED
           /\ apiMethod = "generateReply" => apiResult = Thrown

\* C27: when generateReport's operation fails with ALL_KEYS_EXHAUSTED,
\* generateReport throws it to its caller, and the report row is not marked
\* completed for that attempt.
C27_ReportFailureReported ==
    (apiMethod = "generateReport" /\ loopThrew = ALL_KEYS_EXHAUSTED)
        => /\ apiResult = Thrown
           /\ reportItem # "completed"

(***************************************************************************)
(* Claims on the close of the connection                                   *)
(***************************************************************************)

\* a close of the connection is handled in this step
ClosedNow ==
    connPc \in {"connecting", "connected"} /\ connPc' \notin {"connecting", "connected"}

\* C29: a close with code 440 (conflict) or 405, or with 401 outside an
\* intentional logout, wipes the stored credentials, releases the lock and
\* ends the process with code 1; no reconnect is scheduled.
C29_FatalCloseWipesAndExits ==
    [][(/\ ClosedNow
        /\ \/ lastClose'.code = 440 /\ lastClose'.tag = "conflict"
           \/ lastClose'.code = 405
           \/ lastClose'.code = 401 /\ ~isLoggingOut)
        => /\ ~credsStored'
           /\ ~lockHeld'
           /\ connPc' = "exited" /\ closeExit' = 1
           /\ scheduledDelay' = NoTime]_vars

\* the close handled in this step is none of the fatal ones of C29
NonFatalClose ==
    /\ ClosedNow
    /\ ~(lastClose'.code = 440 /\ lastClose'.tag = "conflict")
    /\ lastClose'.code # 405
    /\ ~(lastClose'.code = 401 /\ ~isLoggingOut)

\* the counter stays within 0..5, and the n-th reconnect is scheduled after
\* min(3000 * 2^(n-1), 30000) ms
BackoffBounded ==
    /\ reconnectAttempts' \in 0..5
    /\ (ClosedNow /\ connPc' = "waiting")
        => LET n == reconnectAttempts'
               d == 3000 * 2 ^ (n - 1)
           IN /\ n >= 1
              /\ scheduledDelay' = (IF d < 30000 THEN d ELSE 30000)
              /\ scheduledDelay' <= 30000

\* the close ends the process: no reconnect, the lock released
GivesUp ==
    /\ connPc' = "exited" /\ closeExit' = 1
    /\ ~lockHeld'
    /\ scheduledDelay' = NoTime

StableSessionClosed ==
    connPc = "connected" /\ lastClose'.sessionDuration > 60000

\* C31: the attempt counter is reset only by the close of a session that had
\* been open for more than 60 s; any other close that reconnects counts one
\* more attempt, and one that arrives at the limit of 5 gives up.
C31_ResetOnlyAfterStableSession ==
    [][(NonFatalClose /\ ~lastClose'.decryption /\ lastClose'.code # 401
            /\ ~StableSessionClosed)
        => IF reconnectAttempts < maxReconnectAttempts
           THEN connPc' = "waiting" /\ reconnectAttempts' = reconnectAttempts + 1
           ELSE GivesUp]_vars

\* C38: whatever opens, closes and reconnects there were, at most one
\* WorkerPool and at most one ConcurrencyController of the client are running.
C38_OnePoolRunning ==
    runningPools <= 1 /\ runningControllers <= 1

(***************************************************************************)
(* Claims on the intake of the WhatsApp client                             *)
(***************************************************************************)

\* an element of a messages.upsert event is handled in this step
HandledNow == lastMsg'.seq = lastMsg.seq + 1

\* the message handled in this step is the third undecryptable one in a row
\* of its sender
ThirdInARow ==
    /\ ~lastMsg'.fromMe /\ lastMsg'.body = "none"
    /\ undecryptableRun[lastMsg'.remoteJid] + 1 = MAX_DECRYPT_FAILURES

\* C32: the recovery message is sent to a sender exactly when the message
\* handled is the third undecryptable one in a row of that sender (a
\* decryptable message in between restarts the count), and the counter of the
\* sender is reset when it is sent.
C32_RecoveryAfterThreeInARow ==
    [][HandledNow =>
        IF ThirdInARow
        THEN /\ recoveries' = Append(recoveries, lastMsg'.remoteJid)
             /\ decryptionFailures'[lastMsg'.remoteJid] = 0
        ELSE recoveries' = recoveries]_vars

\* the event handled in this step is one the intake drops: sent by the bot,
\* undecryptable, without a text, or of a group, status, broadcast or
\* newsletter address
DroppedNow ==
    /\ HandledNow
    /\ \/ lastMsg'.fromMe
       \/ lastMsg'.body \in {"none", "media"}
       \/ lastMsg'.remoteJid \in {GroupJid, StatusJid, NewsletterJid}

C34_OwnerHasOneIdentity ==
    normalizedJid # NoJid
        => IF ownerAccepted
           THEN normalizedJid = ownerPhone \o <<"@", "s.whatsapp.net">>
           ELSE normalizedJid = SelectSeq(remoteJid, LAMBDA c : c # "+")

====
